---- MODULE Spec2Model ----
(***************************************************************************)
(* Verification model of the benchmark matrix execution, result            *)
(* aggregation and comparison code of volume-performance-testing:          *)
(*   fio_test.py        FIOTestRunner (matrix run, one scenario, parsers)  *)
(*   tools/aggregate.py aggregate_cases                                    *)
(*   tools/compare.py   compare_cases                                      *)
(* Strings that are Chinese in the source are written in English here,     *)
(* the original is quoted in the comment next to each of them.             *)
(* Floating point quotients x / 1024 and x / 1000 are integer quotients    *)
(* here; the tool outputs enumerated below only hold exact multiples.      *)
(* Quotients whose divisor is data (an average, a percentage) are kept as  *)
(* exact fractions [n, d].                                                 *)
(***************************************************************************)
EXTENDS Integers, Sequences, FiniteSets, TLC

VARIABLES
    \* ---- FIOTestRunner fields (fio_test.py __init__) ----
    filesystem,       \* self.filesystem, probed once with df -T
    block_sizes,      \* self.block_sizes
    queue_depths,     \* self.queue_depths
    rwmix_ratios,     \* self.rwmix_ratios
    core_scenarios,   \* self.core_scenarios
    \* ---- run_comprehensive_fio_tests / _run_core_scenarios locals ----
    pc,               \* "core" | "sweep" | "call" | "fallback" | "returned"
    caller,           \* who called _run_fio_test for the scenario in flight
    core_i,           \* index of the next core scenario
    results,          \* local list of _run_core_scenarios
    scenario_count,   \* scenario_count of the sweep
    all_results,      \* all_results of run_comprehensive_fio_tests
    \* ---- _run_fio_test locals of the scenario in flight ----
    result,           \* the TestResult being filled
    fio_command,      \* the primary command
    \* ---- the working directory and the external tool ----
    test_files,       \* backing files fio_test_* present in test_dir, each
                      \* [name, made]: made "before" the run or by the "run"
    tool,             \* what the external tool may do in this run
    faults,           \* scenarios so far whose primary run was not nominal
    calls,            \* invocations made for the scenario in flight
    attempts,         \* per returned result: its invocations (history)
    core_attempts,    \* same, for the local list of _run_core_scenarios
    \* ---- tools/aggregate.py ----
    agg_files,        \* contents of the files passed to aggregate_cases
    agg_out,          \* what aggregate_cases returned (or that it raised)
    \* ---- tools/compare.py ----
    cmp_a,            \* baseline document
    cmp_b,            \* current document
    cmp_out,          \* what compare_cases returned
    \* ---- tools/compare.py main, aggregate comparison ----
    cmp_meta_a,       \* A.get('meta', {}) of the baseline aggregate.json
    cmp_meta_b,       \* B.get('meta', {}) of the current aggregate.json
    cmp_written,      \* artifacts written under test_data/reports/compare
    cmp_exit,         \* how main ended
    \* ---- tools/check_fio_product.py ----
    chk_runner,       \* the matrix fields of the runner main constructs
    chk_out,          \* what main returned
    \* ---- one direct call of a parser of FIOTestRunner ----
    parse_in,         \* the parser called, its output text and its result
    parse_out,        \* the result as the parser left it
    \* ---- main() of main.py or fio_test.py around a full run ----
    main_entry,       \* which of the two entry points is running
    main_cleanup,     \* args.cleanup
    main_reported,    \* the results the summary and the report were made of
    main_exit,        \* "running", then the value main returned
    \* ---- a coordinated run: tools/dispatch.py, main.py on each host,
    \* ---- tools/collect.py
    co_start,         \* start_time_utc of the cluster descriptor
    co_args,          \* the main.py arguments given to dispatch
    co_clock,         \* per host: its local clock when main.py starts
    co_phase,         \* "configured" | "dispatched" | "collected"
    co_cmd,           \* per host: the remote command dispatch sent
    co_ran,           \* the hosts on which the remote command has ended
    co_files,         \* per host: the files under its test_data/reports
    co_pulled,        \* per host: the remote path collect pulled, if any
    \* ---- the report files of one StoragePerformanceTest (main.py)
    rep_clock,        \* the local wall-clock minute
    rep_ticks,        \* minutes gone by since construction
    rep_pc,           \* "new" | "testing" | "tested" | "reported"
    run_timestamp,    \* <<>> for None, else <<stamp>>
    quick_mode,       \* self.quick_mode
    rep_files,        \* the report files written so far
    rep_calls,        \* the output_file arguments generate_report was given
    \* ---- SystemMonitor and the test that uses it
    \* ---- (vm_storage_performance_test.py)
    monitoring,       \* self.monitoring
    monitor_thread,   \* self.monitor_thread: 0 for None, else the thread
    cpu_usage,        \* self.cpu_usage, each sample with who took it and when
    mon_thread_pc,    \* per thread: its position in _monitor_loop
    mon_test,         \* the number of tests started so far
    mon_caller,       \* the position of the test method around its command
    mon_stats         \* per test: the samples get_average_stats averaged

fioVars == <<filesystem, block_sizes, queue_depths, rwmix_ratios,
             core_scenarios, pc, caller, core_i, results, scenario_count,
             all_results, result, fio_command, test_files, tool, faults,
             calls, attempts, core_attempts>>
aggVars == <<agg_files, agg_out>>
cmpVars == <<cmp_a, cmp_b, cmp_out>>
cmpMainVars == <<cmp_meta_a, cmp_meta_b, cmp_written, cmp_exit>>
chkVars == <<chk_runner, chk_out>>
parseVars == <<parse_in, parse_out>>
mainVars == <<main_entry, main_cleanup, main_reported, main_exit>>
coVars == <<co_start, co_args, co_clock, co_phase, co_cmd, co_ran, co_files,
            co_pulled>>
repVars == <<rep_clock, rep_ticks, rep_pc, run_timestamp, quick_mode, rep_files,
             rep_calls>>
monVars == <<monitoring, monitor_thread, cpu_usage, mon_thread_pc, mon_test,
             mon_caller, mon_stats>>
vars == <<fioVars, aggVars, cmpVars, cmpMainVars, chkVars, parseVars, mainVars,
          coVars, repVars, monVars>>

\* what an action of one component leaves alone
notFio ==
    <<aggVars, cmpVars, cmpMainVars, chkVars, parseVars, mainVars, coVars,
      repVars, monVars>>
notAgg ==
    <<fioVars, cmpVars, cmpMainVars, chkVars, parseVars, mainVars, coVars,
      repVars, monVars>>
notCmp ==
    <<fioVars, aggVars, cmpMainVars, chkVars, parseVars, mainVars, coVars,
      repVars, monVars>>
notCmpMain ==
    <<fioVars, aggVars, chkVars, parseVars, mainVars, coVars, repVars, monVars>>
notChk ==
    <<fioVars, aggVars, cmpVars, cmpMainVars, parseVars, mainVars, coVars,
      repVars, monVars>>
notCo ==
    <<fioVars, aggVars, cmpVars, cmpMainVars, chkVars, parseVars, mainVars,
      repVars, monVars>>
notRep ==
    <<fioVars, aggVars, cmpVars, cmpMainVars, chkVars, parseVars, mainVars,
      coVars, monVars>>
notParse ==
    <<fioVars, aggVars, cmpVars, cmpMainVars, chkVars, mainVars, coVars,
      repVars, monVars>>
notMon ==
    <<fioVars, aggVars, cmpVars, cmpMainVars, chkVars, parseVars, mainVars,
      coVars, repVars>>

----------------------------------------------------------------------------
(* Bounds of the model *)

\* a modelled run sweeps a prefix of each configured list; the product of
\* the lengths of the three prefixes is at most this
MaxMatrix == 2
\* longest list of configured core scenarios
MaxCore == 1
\* scenarios of one run whose primary invocation may deviate from nominal
MaxFaults == 1
\* longest list of files passed to aggregate_cases
MaxAggFiles == 2
\* most cases in the files of one list together
MaxAggCases == 2
\* most cases in a document passed to compare_cases
MaxCmpCases == 2

----------------------------------------------------------------------------
(* Generic helpers *)

RECURSIVE Flatten(_)
Flatten(ss) == IF ss = <<>> THEN <<>> ELSE Head(ss) \o Flatten(Tail(ss))

\* dict.get(key, default) on a dict modelled as a function
Get(d, k, default) == IF k \in DOMAIN d THEN d[k] ELSE default

EmptyDict == [k \in {} |-> 0]

SeqsUpTo(S, n) == UNION {[1..k -> S] : k \in 0..n}

Prefix(s, n) == SubSeq(s, 1, IF n < Len(s) THEN n ELSE Len(s))

----------------------------------------------------------------------------
(* FIOTestRunner.__init__ : the configured matrix *)

ConfiguredBlockSizes == <<"4k", "8k", "16k", "32k", "64k", "128k", "1m", "4m">>
ConfiguredQueueDepths == <<1, 2, 4, 8, 16, 32>>
ConfiguredRwmix == <<0, 25, 50, 75, 100>>

iodepth_numjobs_mapping ==
    [qd \in {1, 2, 4, 8, 16, 32} |-> IF qd <= 4 THEN <<1, 4>> ELSE <<4, 8>>]

Filesystems == {"ext4", "9p"}

\* entries of core_scenarios.yaml as load_core_scenarios returns them;
\* int_ok = FALSE is an entry whose iodepth or numjobs is not an integer
CorePool ==
    { [rw |-> "read",   bs |-> "1m", iodepth |-> 32, numjobs |-> 1, rwmixread |-> 50, int_ok |-> TRUE],
      [rw |-> "randrw", bs |-> "4k", iodepth |-> 1,  numjobs |-> 1, rwmixread |-> 70, int_ok |-> TRUE],
      [rw |-> "randread", bs |-> "4k", iodepth |-> 1, numjobs |-> 1, rwmixread |-> 50, int_ok |-> FALSE] }

----------------------------------------------------------------------------
(* TestResult (common.py) *)

NewResult(test_name, test_type, block_size, queue_depth, numjobs, rwmix_read) ==
    [ test_name |-> test_name, test_type |-> test_type, command |-> EmptyDict,
      block_size |-> block_size, queue_depth |-> queue_depth,
      numjobs |-> numjobs, rwmix_read |-> rwmix_read,
      throughput_mbps |-> 0, error_message |-> "",
      read_iops |-> 0, write_iops |-> 0, read_mbps |-> 0, write_mbps |-> 0,
      read_latency_us |-> 0, write_latency_us |-> 0 ]

\* the placeholder kept in `result` while no scenario is in flight
NoResult == NewResult("", "", "", 0, 0, 0)

----------------------------------------------------------------------------
(* What one invocation of the external tool leaves behind.                 *)
(* A JSON document is [top |-> "notjson"] (json.loads raises),             *)
(* [top |-> "list"] (valid JSON, not an object) or                         *)
(* [top |-> "dict", jobs |-> <<job, ...>>]; a job is a dict with keys      *)
(* among read, write; a sub-record is a dict with keys among iops, bw,     *)
(* lat_ns, where bw is a number or a string and lat_ns an object with a    *)
(* mean or a bare number.                                                  *)

Num(v) == [t |-> "num", v |-> v]
Str == [t |-> "str", v |-> 0]
LatObj(mean) == [t |-> "obj", mean |-> mean]
LatNum == [t |-> "num", mean |-> 0]

SubRecords(iops, bw, mean) ==
    { EmptyDict,
      [iops |-> 0,    bw |-> Num(0),  lat_ns |-> LatObj(0)],
      [iops |-> iops, bw |-> Num(bw), lat_ns |-> LatObj(mean)],
      [iops |-> iops, bw |-> Num(bw)],
      [iops |-> iops, bw |-> Str,     lat_ns |-> LatObj(mean)],
      [iops |-> iops, bw |-> Num(bw), lat_ns |-> LatNum] }

NotJson == [top |-> "notjson"]
TopList == [top |-> "list"]
NoJobs == [top |-> "dict", jobs |-> <<>>]
JobDoc(r, w) == [top |-> "dict", jobs |-> <<[read |-> r, write |-> w]>>]

\* the document of a run that went well
NominalDoc ==
    JobDoc([iops |-> 1000, bw |-> Num(2048), lat_ns |-> LatObj(4000)],
           [iops |-> 500,  bw |-> Num(1024), lat_ns |-> LatObj(8000)])

JsonDocs ==
    {NotJson, TopList, NoJobs}
    \cup {JobDoc(r, w) : r \in SubRecords(1000, 2048, 4000),
                         w \in SubRecords(500, 1024, 8000)}

\* one comma separated part of a line of the human readable output
Part(key, num_ok, val, unit) ==
    [key |-> key, num_ok |-> num_ok, val |-> val, unit |-> unit]
Line(mark, parts) == [mark |-> mark, parts |-> parts]

TextOutputs ==
    { <<>>,
      \* read: IOPS=800, BW=10MiB/s   /   write: IOPS=0
      << Line("read", <<Part("IOPS", TRUE, 800, ""), Part("BW", TRUE, 10, "MiB/s")>>),
         Line("write", <<Part("IOPS", TRUE, 0, "")>>) >>,
      \* write: IOPS=500, BW=2048KiB/s
      << Line("write", <<Part("IOPS", TRUE, 500, ""), Part("BW", TRUE, 2048, "KiB/s")>>) >>,
      \* read: IOPS=3, BW=1GiB/s
      << Line("read", <<Part("IOPS", TRUE, 3, ""), Part("BW", TRUE, 1, "GiB/s")>>) >>,
      \* read: IOPS=800, BW=10MiB/s   /   write: IOPS=1.2k, BW=5MiB/s
      << Line("read", <<Part("IOPS", TRUE, 800, ""), Part("BW", TRUE, 10, "MiB/s")>>),
         Line("write", <<Part("IOPS", FALSE, 0, ""), Part("BW", TRUE, 5, "MiB/s")>>) >>,
      \* read: IOPS=800, BW=10.0MiB/s (10.5MB/s)(100MiB/10001msec)
      << Line("read", <<Part("IOPS", TRUE, 800, ""), Part("BW", FALSE, 10, "MiB/s")>>) >>,
      \* a line without any marker
      << Line("", <<Part("", FALSE, 0, "")>>) >> }

\* the content of a stream or file: either JSON or lines of text
JsonOutput(doc) == [json |-> doc, lines |-> <<>>]
TextOutput(lines) == [json |-> NotJson, lines |-> lines]
FileOf(doc) == [present |-> TRUE, json |-> doc]
NoFile == [present |-> FALSE]

NominalFile == FileOf(NominalDoc)
NominalStdout == TextOutput(<<>>)

\* every behaviour of the tool the model knows
RichTool ==
    [ files   |-> {NoFile} \cup {FileOf(d) : d \in JsonDocs},
      stdouts |-> {JsonOutput(d) : d \in JsonDocs \ {NotJson}}
                  \cup {TextOutput(t) : t \in TextOutputs},
      stderrs |-> {"", "fio: io error"},
      raises  |-> {"timeout", "oserror"},
      maxfaults |-> 1 ]

\* the behaviours used when a whole matrix is run: an invocation exits
\* with a well-formed document, exits non-zero or times out
PlainTool ==
    [ files   |-> {NominalFile},
      stdouts |-> {NominalStdout},
      stderrs |-> {"fio: io error"},
      raises  |-> {"timeout"},
      maxfaults |-> MaxFaults ]

----------------------------------------------------------------------------
(* FIOTestRunner._parse_fio_json_output *)

\* a variant that stores bw as it is, in KB/s
ParseSubRecord_NoScale(res, data, dir) ==
    LET r1 == [res EXCEPT ![dir \o "_iops"] = Get(data, "iops", 0)]
        bw == Get(data, "bw", Num(0))
        lat == Get(data, "lat_ns", LatObj(0))
    IN  IF bw.t # "num"
        THEN [result |-> r1, exc |-> "TypeError"]
        ELSE LET r2 == [r1 EXCEPT ![dir \o "_mbps"] = bw.v]
             IN  IF lat.t # "obj"
                 THEN [result |-> r2, exc |-> "AttributeError"]
                 ELSE [result |-> [r2 EXCEPT ![dir \o "_latency_us"] = lat.mean \div 1000],
                       exc |-> "none"]

\* one of the two `if read_data:` / `if write_data:` blocks; exc names the
\* exception the block stops on
ParseSubRecord(res, data, dir) ==
    LET r1 == [res EXCEPT ![dir \o "_iops"] = Get(data, "iops", 0)]
        bw == Get(data, "bw", Num(0))
        lat == Get(data, "lat_ns", LatObj(0))
    IN  IF bw.t # "num"
        THEN [result |-> r1, exc |-> "TypeError"]
        ELSE LET r2 == [r1 EXCEPT ![dir \o "_mbps"] = bw.v \div 1024]
             IN  IF lat.t # "obj"
                 THEN [result |-> r2, exc |-> "AttributeError"]
                 ELSE [result |-> [r2 EXCEPT ![dir \o "_latency_us"] = lat.mean \div 1000],
                       exc |-> "none"]

\* the exceptions the parser's except clause names
JsonParserCatches(exc) == exc \in {"JSONDecodeError", "KeyError", "TypeError"}

\* result: the TestResult as the parser leaves it; raised: the parser let
\* an exception out to its caller
_parse_fio_json_output(output, res) ==
    LET Leave(r, exc) == [result |-> r, raised |-> ~JsonParserCatches(exc)]
        Done(r) == [result |-> r, raised |-> FALSE]
    IN  IF output.top = "notjson" THEN Leave(res, "JSONDecodeError")
        ELSE IF output.top = "list" THEN Leave(res, "AttributeError")
        ELSE IF output.jobs = <<>> THEN Done(res)
        ELSE
          LET job == output.jobs[1]
              read_data == Get(job, "read", EmptyDict)
              rd == IF DOMAIN read_data # {}
                    THEN ParseSubRecord(res, read_data, "read")
                    ELSE [result |-> res, exc |-> "none"]
              write_data == Get(job, "write", EmptyDict)
              wr == IF DOMAIN write_data # {}
                    THEN ParseSubRecord(rd.result, write_data, "write")
                    ELSE [result |-> rd.result, exc |-> "none"]
          IN  IF rd.exc # "none" THEN Leave(rd.result, rd.exc)
              ELSE IF wr.exc # "none" THEN Leave(wr.result, wr.exc)
              ELSE Done([wr.result EXCEPT !.throughput_mbps =
                                      wr.result.read_mbps + wr.result.write_mbps])

----------------------------------------------------------------------------
(* FIOTestRunner._parse_fio_text_output *)

RECURSIVE ParseParts(_, _, _)
ParseParts(parts, res, dir) ==
    IF parts = <<>> THEN [result |-> res, exc |-> FALSE]
    ELSE
      LET p == Head(parts) IN
      IF p.key = "IOPS" THEN
          IF ~p.num_ok THEN [result |-> res, exc |-> TRUE]
          ELSE ParseParts(Tail(parts), [res EXCEPT ![dir \o "_iops"] = p.val], dir)
      ELSE IF p.key = "BW" /\ p.unit = "MiB/s" THEN
          IF ~p.num_ok THEN [result |-> res, exc |-> TRUE]
          ELSE ParseParts(Tail(parts), [res EXCEPT ![dir \o "_mbps"] = p.val], dir)
      ELSE IF p.key = "BW" /\ p.unit = "KiB/s" THEN
          IF ~p.num_ok THEN [result |-> res, exc |-> TRUE]
          ELSE ParseParts(Tail(parts), [res EXCEPT ![dir \o "_mbps"] = p.val \div 1024], dir)
      ELSE ParseParts(Tail(parts), res, dir)

HasIops(line) == \E i \in 1..Len(line.parts) : line.parts[i].key = "IOPS"

RECURSIVE ParseLines(_, _)
ParseLines(lines, res) ==
    IF lines = <<>> THEN [result |-> res, exc |-> FALSE]
    ELSE
      LET line == Head(lines)
          p == IF line.mark = "read" /\ HasIops(line)
                 THEN ParseParts(line.parts, res, "read")
               ELSE IF line.mark = "write" /\ HasIops(line)
                 THEN ParseParts(line.parts, res, "write")
               ELSE [result |-> res, exc |-> FALSE]
      IN  IF p.exc THEN p ELSE ParseLines(Tail(lines), p.result)

\* except Exception: every exception is caught, the parser never raises
_parse_fio_text_output(output, res) ==
    LET p == ParseLines(output.lines, res)
    IN  IF p.exc THEN p.result
        ELSE [p.result EXCEPT !.throughput_mbps =
                                 p.result.read_mbps + p.result.write_mbps]

----------------------------------------------------------------------------
(* The swept matrix: the nested loops of run_comprehensive_fio_tests       *)

Scenario(test_type, block_size, queue_depth, numjobs, rwmix_read) ==
    [ test_type |-> test_type, block_size |-> block_size,
      queue_depth |-> queue_depth, numjobs |-> numjobs,
      rwmix_read |-> rwmix_read ]

\* a variant without the branch for 100
TestTypeOf_MixedAt100(rwmix_read) ==
    IF rwmix_read = 0 THEN "randwrite" ELSE "randrw"

\* "randwrite" for 0, "randread" for 100, "randrw" otherwise
TestTypeOf(rwmix_read) ==
    IF rwmix_read = 0 THEN "randwrite"
    ELSE IF rwmix_read = 100 THEN "randread"
    ELSE "randrw"

\* the scenarios in the order the four nested for loops visit them
SweepScenarios ==
    Flatten([b \in 1..Len(block_sizes) |->
      Flatten([q \in 1..Len(queue_depths) |->
        LET numjobs_list == iodepth_numjobs_mapping[queue_depths[q]] IN
        Flatten([j \in 1..Len(numjobs_list) |->
          [m \in 1..Len(rwmix_ratios) |->
             Scenario(TestTypeOf(rwmix_ratios[m]), block_sizes[b],
                      queue_depths[q], numjobs_list[j], rwmix_ratios[m])]])])])

\* the body of the try block of _run_core_scenarios up to the call
CoreScenario(sc) ==
    Scenario(sc.rw, sc.bs, sc.iodepth, sc.numjobs,
             IF sc.rw = "randrw" THEN sc.rwmixread ELSE 0)

----------------------------------------------------------------------------
(* FIOTestRunner._run_fio_test : names and command                         *)

\* "随机读", "随机写", "随机读写(N%读)", or the test type itself
_get_test_name(test_type, rwmix_read) ==
    IF test_type = "randread" THEN "random read"
    ELSE IF test_type = "randwrite" THEN "random write"
    ELSE IF test_type = "randrw"
      THEN "random read/write(" \o ToString(rwmix_read) \o "% read)"
    ELSE test_type

\* a variant that leaves the concurrency out of the name
TestName_NoJobs(sc) ==
    "FIO " \o _get_test_name(sc.test_type, sc.rwmix_read) \o " " \o sc.block_size
    \o " QD" \o ToString(sc.queue_depth)

\* f"FIO {self._get_test_name(test_type, rwmix_read)} {block_size}
\* QD{queue_depth} J{numjobs}"
TestName(sc) ==
    "FIO " \o _get_test_name(sc.test_type, sc.rwmix_read) \o " " \o sc.block_size
    \o " QD" \o ToString(sc.queue_depth) \o " J" \o ToString(sc.numjobs)

FileSuffix(sc) ==
    sc.block_size \o "_" \o ToString(sc.queue_depth) \o "_"
    \o ToString(sc.numjobs) \o "_" \o ToString(sc.rwmix_read)

TestFile(sc) == "fio_test_" \o FileSuffix(sc)

OutputFile(sc) == "fio_json_" \o FileSuffix(sc) \o ".json"

\* the argument list, one field per option that varies; --rwmixread is a
\* field of the record only when the option is on the command line
FioCommand(sc, fs) ==
    LET base == [ filename |-> TestFile(sc), rw |-> sc.test_type,
                  bs |-> sc.block_size, iodepth |-> sc.queue_depth,
                  numjobs |-> sc.numjobs,
                  direct |-> IF fs = "9p" /\ sc.test_type \in {"randread", "randrw"}
                             THEN 0 ELSE 1,
                  ioengine |-> IF fs = "9p" THEN "psync" ELSE "libaio",
                  output |-> OutputFile(sc) ]
    IN  IF sc.test_type = "randrw"
        THEN base @@ [rwmixread |-> sc.rwmix_read]
        ELSE base

FallbackCommand(cmd) == [cmd EXCEPT !.ioengine = "sync", !.direct = 0]

\* the TestResult as it is when the primary command is launched
FreshResult(sc, fs) ==
    [ NewResult(TestName(sc), sc.test_type, sc.block_size, sc.queue_depth,
                sc.numjobs, sc.rwmix_read)
      EXCEPT !.command = FioCommand(sc, fs) ]

----------------------------------------------------------------------------
(* FIOTestRunner._run_fio_test : one invocation and what follows it        *)

\* the ways one subprocess.run can end, with what it leaves behind
Runs(t) ==
    {[outcome |-> "exit0", file |-> f, stdout |-> s] :
        f \in t.files, s \in t.stdouts}
    \cup {[outcome |-> "nonzero", stderr |-> e] : e \in t.stderrs}
    \cup {[outcome |-> o] : o \in t.raises}

Nominal(run) ==
    run = [outcome |-> "exit0", file |-> NominalFile, stdout |-> NominalStdout]

\* the inner try/except around open() and the JSON parser:
\* escaped: an exception left the inner try/except
\* parser_raised: some call of the JSON parser raised
ReadOutput(res, file, stdout) ==
    LET fromFile == _parse_fio_json_output(file.json, res)
        useStdout == ~file.present \/ fromFile.raised
        base == IF file.present THEN fromFile.result ELSE res
        fromStdout == _parse_fio_json_output(stdout.json, base)
    IN  [ result |-> IF useStdout THEN fromStdout.result ELSE base,
          escaped |-> useStdout /\ fromStdout.raised,
          parser_raised |-> (file.present /\ fromFile.raised)
                            \/ (useStdout /\ fromStdout.raised) ]

\* process.stderr or "FIO命令执行失败"
FailureText(stderr) == IF stderr # "" THEN stderr ELSE "FIO command failed"

\* a variant that also takes the fallback path after a non-zero exit
TimeoutExpired_AlsoNonZero(run) == run.outcome \in {"timeout", "nonzero"}

\* except subprocess.TimeoutExpired
TimeoutExpired(run) == run.outcome = "timeout"

\* the result after the primary invocation ended without a timeout
AfterPrimary(res, run) ==
    IF run.outcome = "exit0" THEN
        LET o == ReadOutput(res, run.file, run.stdout) IN
        IF o.escaped
          THEN [o.result EXCEPT !.error_message = "AttributeError"]   \* str(e)
        ELSE IF o.result.read_iops # 0 \/ o.result.write_iops # 0
          THEN o.result
        ELSE _parse_fio_text_output(run.stdout, o.result)
    ELSE IF run.outcome = "nonzero" THEN
        [res EXCEPT !.error_message = FailureText(run.stderr)]
    ELSE [res EXCEPT !.error_message = "OSError"]                    \* str(e)

\* the result after the fallback invocation ended; "测试超时"
AfterFallback(res, run) ==
    IF run.outcome = "exit0" THEN
        LET o == ReadOutput(res, run.file, run.stdout) IN
        IF o.escaped
          THEN [o.result EXCEPT !.error_message = "test timeout"]
          ELSE [o.result EXCEPT !.error_message = ""]
    ELSE IF run.outcome = "nonzero" THEN
        [res EXCEPT !.error_message = FailureText(run.stderr)]
    ELSE [res EXCEPT !.error_message = "test timeout"]

\* the record kept of one invocation
Call(cmd, res, run) ==
    [ command |-> cmd, outcome |-> run.outcome, run |-> run,
      parser_raised |-> IF run.outcome = "exit0"
                        THEN ReadOutput(res, run.file, run.stdout).parser_raised
                        ELSE FALSE ]

----------------------------------------------------------------------------
(* run_comprehensive_fio_tests as a state machine.  One step is one        *)
(* invocation of the external tool together with all the code that runs    *)
(* before the next invocation.                                             *)

\* a variant that gives up the run at the first failed scenario
NextPc_StopOnError(loop, res) ==
    IF res.error_message # "" THEN "returned" ELSE loop

\* where the run goes once a scenario of `loop` has produced its result:
\* both loops go on to their next iteration whatever the result holds
NextPc(loop, res) == loop

\* a variant that leaves the name of a core result as _run_fio_test built it
CoreTagged_Untagged(res) == res

\* res.test_name = f"CORE {res.test_name}"
CoreTagged(res) == [res EXCEPT !.test_name = "CORE " \o res.test_name]

\* the scenario called from `loop` returned `res` after the invocations `log`
Finish(loop, res, log) ==
    /\ IF loop = "core"
       THEN /\ results' = Append(results, CoreTagged(res))
            /\ core_attempts' = Append(core_attempts, log)
            /\ UNCHANGED <<all_results, attempts>>
       ELSE /\ all_results' = Append(all_results, res)
            /\ attempts' = Append(attempts, log)
            /\ UNCHANGED <<results, core_attempts>>
    /\ pc' = IF loop = "call" THEN "returned" ELSE NextPc(loop, res)
    /\ result' = NoResult
    /\ fio_command' = EmptyDict
    /\ calls' = <<>>
    /\ caller' = ""

\* a variant that opens the backing file for writing whether it exists or not
Materialize_Always(files, name) ==
    {f \in files : f.name # name} \cup {[name |-> name, made |-> "run"]}

\* if not os.path.exists(fp): open(fp, "wb"), seek, write one byte
Materialize(files, name) ==
    IF \E f \in files : f.name = name THEN files
    ELSE files \cup {[name |-> name, made |-> "run"]}

\* _run_fio_test from its first line to the end of the primary invocation
Primary(loop, sc) ==
    \E run \in Runs(tool) :
      LET res == FreshResult(sc, filesystem)
          cmd == FioCommand(sc, filesystem)
          call == Call(cmd, res, run)
      IN  /\ Nominal(run) \/ faults < tool.maxfaults
          /\ faults' = IF Nominal(run) THEN faults ELSE faults + 1
          /\ test_files' = Materialize(test_files, TestFile(sc))
          /\ IF TimeoutExpired(run)
             THEN /\ pc' = "fallback"
                  /\ caller' = loop
                  /\ result' = res
                  /\ fio_command' = cmd
                  /\ calls' = <<call>>
                  /\ UNCHANGED <<results, all_results, attempts, core_attempts>>
             ELSE Finish(loop, AfterPrimary(res, run), <<call>>)

\* one iteration of the for loop of _run_core_scenarios
RunCoreScenario ==
    /\ pc = "core"
    /\ core_i <= Len(core_scenarios)
    /\ core_i' = core_i + 1
    /\ IF core_scenarios[core_i].int_ok
       THEN Primary("core", CoreScenario(core_scenarios[core_i]))
       ELSE \* int() raised: logged, no result for this entry
            UNCHANGED <<pc, caller, results, all_results, result, fio_command,
                        test_files, faults, calls, attempts, core_attempts>>
    /\ UNCHANGED <<filesystem, block_sizes, queue_depths, rwmix_ratios,
                   core_scenarios, scenario_count, tool>>
    /\ UNCHANGED notFio

\* _run_core_scenarios returns; all_results.extend(core)
CoreDone ==
    /\ pc = "core"
    /\ core_i > Len(core_scenarios)
    /\ all_results' = all_results \o results
    /\ attempts' = attempts \o core_attempts
    /\ pc' = "sweep"
    /\ UNCHANGED <<filesystem, block_sizes, queue_depths, rwmix_ratios,
                   core_scenarios, caller, core_i, results, scenario_count,
                   result, fio_command, test_files, tool, faults, calls,
                   core_attempts>>
    /\ UNCHANGED notFio

\* one iteration of the innermost for loop of the sweep
RunSweepScenario ==
    /\ pc = "sweep"
    /\ scenario_count < Len(SweepScenarios)
    /\ scenario_count' = scenario_count + 1
    /\ Primary("sweep", SweepScenarios[scenario_count + 1])
    /\ UNCHANGED <<filesystem, block_sizes, queue_depths, rwmix_ratios,
                   core_scenarios, core_i, tool>>
    /\ UNCHANGED notFio

\* the except subprocess.TimeoutExpired block of _run_fio_test
Fallback ==
    /\ pc = "fallback"
    /\ \E run \in Runs(tool) :
         LET cmd == FallbackCommand(fio_command) IN
         Finish(caller, AfterFallback(result, run),
                Append(calls, Call(cmd, result, run)))
    /\ UNCHANGED <<filesystem, block_sizes, queue_depths, rwmix_ratios,
                   core_scenarios, core_i, scenario_count, test_files, tool,
                   faults>>
    /\ UNCHANGED notFio

\* return all_results
Return ==
    /\ pc = "sweep"
    /\ scenario_count = Len(SweepScenarios)
    /\ pc' = "returned"
    /\ UNCHANGED <<filesystem, block_sizes, queue_depths, rwmix_ratios,
                   core_scenarios, caller, core_i, results, scenario_count,
                   all_results, result, fio_command, test_files, tool, faults,
                   calls, attempts, core_attempts>>
    /\ UNCHANGED notFio

\* the runner while another tool is the one being run
FioIdle ==
    /\ filesystem = "ext4"
    /\ block_sizes = <<>> /\ queue_depths = <<>> /\ rwmix_ratios = <<>>
    /\ core_scenarios = <<>>
    /\ pc = "off" /\ caller = "" /\ core_i = 1 /\ results = <<>>
    /\ scenario_count = 0 /\ all_results = <<>>
    /\ result = NoResult /\ fio_command = EmptyDict
    /\ test_files = {} /\ tool = PlainTool /\ faults = 0
    /\ calls = <<>> /\ attempts = <<>> /\ core_attempts = <<>>

AggIdle == agg_files = <<>> /\ agg_out = [state |-> "off"]

CmpIdle == cmp_a = <<>> /\ cmp_b = <<>> /\ cmp_out = [state |-> "off"]

CmpMainIdle ==
    /\ cmp_meta_a = EmptyDict /\ cmp_meta_b = EmptyDict
    /\ cmp_written = {} /\ cmp_exit = "off"

ChkIdle == chk_runner = EmptyDict /\ chk_out = [state |-> "off"]

ParseIdle == parse_in = EmptyDict /\ parse_out = [state |-> "off"]

MainIdle ==
    /\ main_entry = "" /\ main_cleanup = FALSE
    /\ main_reported = [state |-> "none"] /\ main_exit = "off"

CoIdle ==
    /\ co_start = EmptyDict /\ co_args = <<>> /\ co_clock = EmptyDict
    /\ co_phase = "off" /\ co_cmd = EmptyDict /\ co_ran = {}
    /\ co_files = EmptyDict /\ co_pulled = EmptyDict

RepIdle ==
    /\ rep_clock = EmptyDict /\ rep_ticks = 0 /\ rep_pc = "off"
    /\ run_timestamp = <<>> /\ quick_mode = FALSE /\ rep_files = {}
    /\ rep_calls = {}

MonIdle ==
    /\ monitoring = FALSE /\ monitor_thread = 0 /\ cpu_usage = <<>>
    /\ mon_thread_pc = EmptyDict /\ mon_test = 0 /\ mon_caller = "off"
    /\ mon_stats = EmptyDict

\* every component is idle except the ones named in `running`
AllIdleBut(running) ==
    /\ IF "fio" \in running THEN TRUE ELSE FioIdle
    /\ IF "agg" \in running THEN TRUE ELSE AggIdle
    /\ IF "cmp" \in running THEN TRUE ELSE CmpIdle
    /\ IF "cmpmain" \in running THEN TRUE ELSE CmpMainIdle
    /\ IF "chk" \in running THEN TRUE ELSE ChkIdle
    /\ IF "parse" \in running THEN TRUE ELSE ParseIdle
    /\ IF "main" \in running THEN TRUE ELSE MainIdle
    /\ IF "co" \in running THEN TRUE ELSE CoIdle
    /\ IF "rep" \in running THEN TRUE ELSE RepIdle
    /\ IF "mon" \in running THEN TRUE ELSE MonIdle

\* a runner constructed for a working directory, before the run starts,
\* with the behaviours t of the external tool
InitRunner(t) ==
    /\ filesystem \in Filesystems
    /\ \E nb \in 1..MaxMatrix, nq \in 1..MaxMatrix, nr \in 1..MaxMatrix :
         /\ nb * nq * nr <= MaxMatrix
         /\ block_sizes = Prefix(ConfiguredBlockSizes, nb)
         /\ queue_depths = Prefix(ConfiguredQueueDepths, nq)
         /\ rwmix_ratios = Prefix(ConfiguredRwmix, nr)
    /\ core_scenarios \in SeqsUpTo(CorePool, MaxCore)
    /\ pc = "core" /\ caller = "" /\ core_i = 1 /\ results = <<>>
    /\ scenario_count = 0 /\ all_results = <<>>
    /\ result = NoResult /\ fio_command = EmptyDict
    /\ test_files = {} /\ tool = t /\ faults = 0
    /\ calls = <<>> /\ attempts = <<>> /\ core_attempts = <<>>

Init == InitRunner(PlainTool) /\ AllIdleBut({"fio"})

Next ==
    \/ RunCoreScenario
    \/ CoreDone
    \/ RunSweepScenario
    \/ Fallback
    \/ Return

Spec == Init /\ [][Next]_vars

\* the scenarios of the first block size and queue depth, one per
\* configured read percentage
CallScenarios ==
    {Scenario(TestTypeOf(ConfiguredRwmix[m]), ConfiguredBlockSizes[1],
              ConfiguredQueueDepths[1],
              iodepth_numjobs_mapping[ConfiguredQueueDepths[1]][1],
              ConfiguredRwmix[m]) : m \in 1..Len(ConfiguredRwmix)}

\* one call of _run_fio_test, up to the end of its primary invocation
CallRunFioTest ==
    /\ pc = "call"
    /\ \E sc \in CallScenarios : Primary("call", sc)
    /\ UNCHANGED <<filesystem, block_sizes, queue_depths, rwmix_ratios,
                   core_scenarios, core_i, scenario_count, tool>>
    /\ UNCHANGED notFio

\* a runner about to run one scenario, with a tool that may leave behind
\* any of the outputs the model knows
InitCall ==
    /\ filesystem \in Filesystems
    /\ block_sizes = <<>> /\ queue_depths = <<>> /\ rwmix_ratios = <<>>
    /\ core_scenarios = <<>>
    /\ pc = "call" /\ caller = "" /\ core_i = 1 /\ results = <<>>
    /\ scenario_count = 0 /\ all_results = <<>>
    /\ result = NoResult /\ fio_command = EmptyDict
    /\ test_files = {} /\ tool = RichTool /\ faults = 0
    /\ calls = <<>> /\ attempts = <<>> /\ core_attempts = <<>>
    /\ AllIdleBut({"fio"})

NextCall ==
    \/ CallRunFioTest
    \/ Fallback

SpecCall == InitCall /\ [][NextCall]_vars

----------------------------------------------------------------------------
(* Properties of the runner *)

\* every result produced so far, paired with the invocations made for it
Produced ==
    [i \in 1..Len(all_results) |-> [res |-> all_results[i], log |-> attempts[i]]]
    \o [i \in 1..Len(results) |-> [res |-> results[i], log |-> core_attempts[i]]]

Last(s) == s[Len(s)]

AllMetricsZero(res) ==
    /\ res.throughput_mbps = 0
    /\ res.read_iops = 0 /\ res.write_iops = 0
    /\ res.read_mbps = 0 /\ res.write_mbps = 0
    /\ res.read_latency_us = 0 /\ res.write_latency_us = 0

\* C1: every scenario run by _run_fio_test invokes the tool once or twice,
\* and twice exactly when the first invocation timed out; a non-zero exit
\* or launch failure of the first invocation is not retried and nothing
\* follows the second invocation.
C1_RetryOnlyOnTimeout ==
    /\ \A i \in 1..Len(Produced) :
         LET log == Produced[i].log IN
         /\ Len(log) \in {1, 2}
         /\ Len(log) = 2 <=> log[1].outcome = "timeout"
    /\ Len(calls) <= 1
    /\ pc = "fallback" <=> (Len(calls) = 1 /\ calls[1].outcome = "timeout")

\* a call that returned after both of its invocations timed out
C1_Witness ==
    /\ pc = "returned"
    /\ \E i \in 1..Len(Produced) :
         LET log == Produced[i].log IN
         Len(log) = 2 /\ log[1].outcome = "timeout" /\ log[2].outcome = "timeout"

\* C2: the result reflects the last invocation attempted: status zero
\* gives an empty error description; a failed last invocation gives a
\* non-empty error description and zero for every metric.
C2_ResultReflectsLastInvocation ==
    \A i \in 1..Len(Produced) :
      LET res == Produced[i].res
          last == Last(Produced[i].log)
      IN  /\ last.outcome = "exit0" => res.error_message = ""
          /\ last.outcome # "exit0" =>
               res.error_message # "" /\ AllMetricsZero(res)

ValidCore == SelectSeq(core_scenarios, LAMBDA sc : sc.int_ok)

IsResultOf(res, sc, prefix) ==
    /\ res.test_name = prefix \o TestName(sc)
    /\ res.test_type = sc.test_type
    /\ res.block_size = sc.block_size
    /\ res.queue_depth = sc.queue_depth
    /\ res.numjobs = sc.numjobs
    /\ res.rwmix_read = sc.rwmix_read

\* C3: a failed scenario never stops a full run: while the sweep is under
\* way and when the run returns, the list holds one result for every valid
\* core scenario and for every swept scenario started so far, in matrix
\* order, failed ones included, and the run returns only after the last
\* scenario of the matrix.
C3_FailureIsolated ==
    /\ pc \in {"core", "sweep", "fallback", "returned"}
    /\ pc \in {"sweep", "returned"} =>
         /\ Len(all_results) = Len(ValidCore) + scenario_count
         /\ \A i \in 1..Len(ValidCore) :
              IsResultOf(all_results[i], CoreScenario(ValidCore[i]), "CORE ")
         /\ \A i \in 1..scenario_count :
              IsResultOf(all_results[Len(ValidCore) + i], SweepScenarios[i], "")
    /\ pc = "returned" => scenario_count = Len(SweepScenarios)

\* a returned run in which a scenario that was not the last one timed out,
\* its fallback failed too, and a later scenario succeeded
C3_Witness ==
    /\ pc = "returned"
    /\ \E i \in 1..Len(all_results) :
         /\ all_results[i].error_message # ""
         /\ Len(attempts[i]) = 2
         /\ \E j \in (i + 1)..Len(all_results) :
              all_results[j].error_message = ""

\* C14: the test kind of a swept scenario follows from its read percentage
\* alone (0 random write, 100 random read, otherwise mixed); the command
\* of a mixed scenario carries exactly that percentage as its read-mix
\* argument and no other command carries a read-mix argument.
C14_KindFromReadPercent ==
    \A i \in 1..Len(Produced) :
      LET res == Produced[i].res
          cmd == Produced[i].log[1].command
          kind == IF res.rwmix_read = 0 THEN "randwrite"
                  ELSE IF res.rwmix_read = 100 THEN "randread"
                  ELSE "randrw"
      IN  /\ res.test_type = kind
          /\ cmd.rw = kind
          /\ "rwmixread" \in DOMAIN cmd <=> kind = "randrw"
          /\ kind = "randrw" => cmd.rwmixread = res.rwmix_read

\* a returned mixed scenario of 75 percent reads
C14_Witness ==
    /\ pc = "returned"
    /\ \E i \in 1..Len(Produced) :
         /\ Produced[i].res.rwmix_read = 75
         /\ Produced[i].res.test_type = "randrw"
         /\ Produced[i].log[1].command.rwmixread = 75

\* sum over the queue depths of |numjobs(qd)| * |block sizes| * |read mixes|
RECURSIVE MatrixSize(_)
MatrixSize(qds) ==
    IF qds = <<>> THEN 0
    ELSE Len(iodepth_numjobs_mapping[Head(qds)]) * Len(block_sizes)
           * Len(rwmix_ratios)
         + MatrixSize(Tail(qds))

\* C12: a full matrix run returns exactly one result per swept scenario
\* and one per configured core scenario: the returned list is as long as
\* the matrix size plus the number of configured core scenarios.
C12_OneResultPerScenario ==
    pc = "returned" =>
      Len(all_results) = MatrixSize(queue_depths) + Len(core_scenarios)

\* C4: parsing never turns a successful execution into a failed result:
\* whatever an invocation that exited with status zero left behind, no
\* call of a parser raises to the executor and the error description of
\* the result stays empty.
C4_ParseNeverFailsResult ==
    \A i \in 1..Len(Produced) :
      LET res == Produced[i].res
          log == Produced[i].log
      IN  /\ \A k \in 1..Len(log) : ~log[k].parser_raised
          /\ Last(log).outcome = "exit0" => res.error_message = ""

----------------------------------------------------------------------------
(* tools/aggregate.py : aggregate_cases                                    *)

\* the case names of the model, in ascending lexicographic order
CaseNames ==
    << "FIO random read 4k QD1 J1",
       "FIO random read/write(50% read) 4k QD1 J1",
       "X", "Y" >>

\* sorted(...) of a set of names
SortedNames(S) == SelectSeq(CaseNames, LAMBDA n : n \in S)

\* an exact quotient n / d
Frac(n, d) == [n |-> n, d |-> d]

FracEq(x, y) == x.n * y.d = y.n * x.d

\* a per-direction dict of a case; values are JSON numbers or strings
Metrics(iops, bw, lat) ==
    [iops |-> Num(iops), bw_MBps |-> Num(bw), lat_us |-> Num(lat)]
MetricsNoLat(iops, bw) == [iops |-> Num(iops), bw_MBps |-> Num(bw)]

AggCasePool ==
    { [name |-> "X", read |-> Metrics(100, 10, 50), write |-> MetricsNoLat(40, 4)],
      [name |-> "X", read |-> Metrics(100, 10, 30), write |-> Metrics(40, 4, 50)],
      [name |-> "Y", read |-> MetricsNoLat(7, 1), write |-> Metrics(0, 0, 0)],
      \* a case without a read key
      [name |-> "Y", write |-> Metrics(5, 2, 20)],
      \* a case whose read.iops is not a number
      [name |-> "X", read |-> [iops |-> Str], write |-> EmptyDict],
      \* a case without a name
      [read |-> Metrics(9, 9, 9), write |-> Metrics(9, 9, 9)] }

\* what open() and json.load() give for one path: "unreadable" is a
\* missing file or one that is not JSON, "list" is valid JSON that is not
\* an object, "dict" an object with a list of cases
AggFilePool(k) ==
    {[kind |-> "dict", cases |-> cs] : cs \in [1..k -> AggCasePool]}
    \cup (IF k = 0 THEN {[kind |-> "unreadable"], [kind |-> "list"]} ELSE {})

\* the lists of at most n files that hold at most `budget` cases together;
\* AggFilePool(k) are the files of k cases
RECURSIVE AggFileLists(_, _)
AggFileLists(n, budget) ==
    IF n = 0 THEN {<<>>}
    ELSE {<<>>} \cup
         UNION {LET rests == AggFileLists(n - 1, budget - k) IN
                {<<f>> \o rest : f \in AggFilePool(k), rest \in rests} :
                k \in 0..budget}

ZeroAgg == [iops |-> 0, bw_MBps |-> 0, lat_us_sum |-> 0]

\* A Python float, scaled down: the significand holds FloatBits bits instead
\* of 53, so a number below 2^FloatBits is exact and a larger one is kept to
\* the nearest multiple of its spacing, ties going to the even significand.
FloatBits == 10

\* the spacing of the floats around n
RECURSIVE Spacing(_, _)
Spacing(n, s) == IF n < (2 ^ FloatBits) * s THEN s ELSE Spacing(n, 2 * s)

FloatRound(n) ==
    LET s == Spacing(n, 1)
        q == n \div s
        r == n % s
    IN  IF 2 * r < s THEN q * s
        ELSE IF 2 * r > s THEN (q + 1) * s
        ELSE IF q % 2 = 0 THEN q * s ELSE (q + 1) * s

\* x + y on floats
FloatAdd(x, y) == FloatRound(x + y)

\* float(x) raises on a value that is not a number
FloatOk(d, k) == Get(d, k, Num(0)).t = "num"
Float(d, k) == FloatRound(Get(d, k, Num(0)).v)

\* a variant that counts a latency for every occurrence of the case
CountLatency_Always(cnt, r) == cnt + 1

\* count[name][dir] += 1 under `if 'lat_us' in r`
CountLatency(cnt, r) == IF "lat_us" \in DOMAIN r THEN cnt + 1 ELSE cnt

\* a variant that keeps the bandwidth of the last occurrence only
Accumulate_BwOverwritten(acc, r) ==
    [ iops |-> FloatAdd(acc.iops, Float(r, "iops")),
      bw_MBps |-> Float(r, "bw_MBps"),
      lat_us_sum |-> IF "lat_us" \in DOMAIN r
                     THEN FloatAdd(acc.lat_us_sum, Float(r, "lat_us"))
                     ELSE acc.lat_us_sum ]

\* the three += of one direction
Accumulate(acc, r) ==
    [ iops |-> FloatAdd(acc.iops, Float(r, "iops")),
      bw_MBps |-> FloatAdd(acc.bw_MBps, Float(r, "bw_MBps")),
      lat_us_sum |-> IF "lat_us" \in DOMAIN r
                     THEN FloatAdd(acc.lat_us_sum, Float(r, "lat_us"))
                     ELSE acc.lat_us_sum ]

DirectionOk(r) ==
    /\ FloatOk(r, "iops")
    /\ FloatOk(r, "bw_MBps")
    /\ "lat_us" \in DOMAIN r => FloatOk(r, "lat_us")

\* the body of `for c in data.get('cases', [])` for one case;
\* st = [agg, count, raised]
AddCase(st, c) ==
    LET name == Get(c, "name", "")
        r == Get(c, "read", EmptyDict)
        w == Get(c, "write", EmptyDict)
        known == name \in DOMAIN st.agg
        a == IF known THEN st.agg[name] ELSE [read |-> ZeroAgg, write |-> ZeroAgg]
        n == IF known THEN st.count[name] ELSE [read |-> 0, write |-> 0]
        a2 == [read |-> Accumulate(a.read, r), write |-> Accumulate(a.write, w)]
        n2 == [read |-> CountLatency(n.read, r), write |-> CountLatency(n.write, w)]
    IN  IF name = "" THEN st
        ELSE IF ~(DirectionOk(r) /\ DirectionOk(w))
          THEN [st EXCEPT !.raised = TRUE]
        ELSE [ agg |-> [k \in DOMAIN st.agg \cup {name} |->
                          IF k = name THEN a2 ELSE st.agg[k]],
               count |-> [k \in DOMAIN st.count \cup {name} |->
                          IF k = name THEN n2 ELSE st.count[k]],
               raised |-> FALSE ]

RECURSIVE AddCases(_, _)
AddCases(st, cases) ==
    IF cases = <<>> \/ st.raised THEN st
    ELSE AddCases(AddCase(st, Head(cases)), Tail(cases))

\* the body of `for fp in files` for one file
AddFile(st, file) ==
    IF file.kind = "unreadable" THEN st                    \* except: continue
    ELSE IF file.kind = "list" THEN [st EXCEPT !.raised = TRUE]   \* data.get
    ELSE AddCases(st, file.cases)

RECURSIVE AddFiles(_, _)
AddFiles(st, files) ==
    IF files = <<>> \/ st.raised THEN st
    ELSE AddFiles(AddFile(st, Head(files)), Tail(files))

\* v['read']['lat_us_sum'] / (count or 1)
Average(sum, cnt) == Frac(sum, IF cnt = 0 THEN 1 ELSE cnt)

\* the list appended to under "finalize average", sorted by name
Finalize(st) ==
    LET names == SortedNames(DOMAIN st.agg)
        Dir(v, cnt) == [ iops |-> v.iops, bw_MBps |-> v.bw_MBps,
                         lat_us |-> Average(v.lat_us_sum, cnt) ]
    IN  [i \in 1..Len(names) |->
           [ name |-> names[i],
             read |-> Dir(st.agg[names[i]].read, st.count[names[i]].read),
             write |-> Dir(st.agg[names[i]].write, st.count[names[i]].write) ]]

aggregate_cases(files) ==
    LET st == AddFiles([agg |-> EmptyDict, count |-> EmptyDict, raised |-> FALSE],
                       files)
    IN  IF st.raised THEN [state |-> "raised"]
        ELSE [state |-> "returned", cases |-> Finalize(st)]

\* one call of aggregate_cases
Aggregate ==
    /\ agg_out.state = "pending"
    /\ agg_out' = aggregate_cases(agg_files)
    /\ UNCHANGED agg_files
    /\ UNCHANGED notAgg

InitAgg ==
    /\ agg_files \in AggFileLists(MaxAggFiles, MaxAggCases)
    /\ agg_out = [state |-> "pending"]
    /\ AllIdleBut({"agg"})

NextAgg == Aggregate

SpecAgg == InitAgg /\ [][NextAgg]_vars

----------------------------------------------------------------------------
(* Properties of aggregate_cases, stated on the input files themselves     *)

RECURSIVE SumOver(_, _)
SumOver(f, S) ==
    IF S = {} THEN 0
    ELSE LET x == CHOOSE y \in S : TRUE IN f[x] + SumOver(f, S \ {x})

\* the files json.load returned an object for
DictFiles == {f \in 1..Len(agg_files) : agg_files[f].kind = "dict"}

\* the positions <<file, index>> of the cases called `name`
Occurrences(name) ==
    UNION {{<<f, k>> : k \in {j \in 1..Len(agg_files[f].cases) :
                               Get(agg_files[f].cases[j], "name", "") = name}} :
           f \in DictFiles}

DirAt(p, dir) == Get(agg_files[p[1]].cases[p[2]], dir, EmptyDict)

\* the sum of one metric over every occurrence of a name, absent values
\* counting as zero
SumOfMetric(name, dir, key) ==
    SumOver([p \in Occurrences(name) |-> Float(DirAt(p, dir), key)],
            Occurrences(name))

\* the occurrences of a name that carry a latency for a direction
Reporting(name, dir) ==
    {p \in Occurrences(name) : "lat_us" \in DOMAIN DirAt(p, dir)}

\* the files in which some occurrence of a name carries such a latency
FilesReporting(name, dir) == {p[1] : p \in Reporting(name, dir)}

OccurringNames ==
    {n \in {CaseNames[i] : i \in 1..Len(CaseNames)} : Occurrences(n) # {}}

AggReturned == agg_out.state = "returned"

\* C5: cases are merged strictly by name and the additive metrics are
\* summed: the aggregate has exactly one case per name occurring in the
\* files read, and its read/write IOPS and bandwidth are the sums of the
\* metric over every occurrence of the name in every file read.
C5_SumsByName ==
    AggReturned =>
      /\ {agg_out.cases[i].name : i \in 1..Len(agg_out.cases)} = OccurringNames
      /\ Len(agg_out.cases) = Cardinality(OccurringNames)
      /\ \A i \in 1..Len(agg_out.cases) :
           LET c == agg_out.cases[i] IN
           \A dir \in {"read", "write"} :
             /\ c[dir].iops = SumOfMetric(c.name, dir, "iops")
             /\ c[dir].bw_MBps = SumOfMetric(c.name, dir, "bw_MBps")

\* an aggregate of two files that both hold the same case name
C5_Witness ==
    /\ AggReturned
    /\ \E n \in OccurringNames :
         /\ Cardinality({p[1] : p \in Occurrences(n)}) = 2
         /\ SumOfMetric(n, "read", "iops") > 0

\* C6 as stated: the aggregate latency of a direction is the sum of the
\* reported latencies divided by the number of input files that reported
\* one, and zero when no file did.
C6_LatencyPerReportingFile ==
    AggReturned =>
      \A i \in 1..Len(agg_out.cases) :
        LET c == agg_out.cases[i] IN
        \A dir \in {"read", "write"} :
          LET nf == Cardinality(FilesReporting(c.name, dir)) IN
          IF nf = 0 THEN c[dir].lat_us.n = 0
          ELSE FracEq(c[dir].lat_us, Frac(SumOfMetric(c.name, dir, "lat_us"), nf))

\* C6 amended: the aggregate latency of a direction is the sum of the
\* reported latencies divided by the number of occurrences of the case
\* that reported one (never by the number of files or of all occurrences),
\* and zero when none did.
C6_LatencyPerReportingOccurrence ==
    AggReturned =>
      \A i \in 1..Len(agg_out.cases) :
        LET c == agg_out.cases[i] IN
        \A dir \in {"read", "write"} :
          LET n == Cardinality(Reporting(c.name, dir)) IN
          /\ c[dir].lat_us.d # 0
          /\ IF n = 0 THEN c[dir].lat_us.n = 0
             ELSE FracEq(c[dir].lat_us, Frac(SumOfMetric(c.name, dir, "lat_us"), n))

\* an aggregate of two files holding the same case, only one of which
\* reports a non-zero latency for some direction
C6_Witness ==
    /\ AggReturned
    /\ Len(agg_files) = 2
    /\ \E n \in OccurringNames : \E dir \in {"read", "write"} :
         /\ {p[1] : p \in Occurrences(n)} = {1, 2}
         /\ Cardinality(FilesReporting(n, dir)) = 1
         /\ SumOfMetric(n, dir, "lat_us") > 0

\* hosts' files of one case each, with sums that pass the exact range of
\* the floats
MaxPermFiles == 3

PermFilePool ==
    { [kind |-> "unreadable"],
      [kind |-> "dict", cases |-> <<[name |-> "X", read |-> Metrics(1024, 10, 30),
                                     write |-> Metrics(40, 4, 50)]>>],
      [kind |-> "dict", cases |-> <<[name |-> "X", read |-> Metrics(1, 10, 50),
                                     write |-> MetricsNoLat(40, 4)]>>],
      [kind |-> "dict", cases |-> <<[name |-> "Y", read |-> Metrics(7, 1, 20),
                                     write |-> Metrics(5, 2, 20)]>>],
      [kind |-> "dict", cases |-> <<[name |-> "X", read |-> [iops |-> Str],
                                     write |-> EmptyDict]>>] }

InitAggPerm ==
    /\ agg_files \in SeqsUpTo(PermFilePool, MaxPermFiles)
    /\ agg_out = [state |-> "pending"]
    /\ AllIdleBut({"agg"})

SpecAggPerm == InitAggPerm /\ [][NextAgg]_vars

\* the file list in another order
Reordered(files, perm) == [i \in 1..Len(files) |-> files[perm[i]]]

Orders(n) == {f \in [1..n -> 1..n] : \A i, j \in 1..n : f[i] = f[j] => i = j}

\* C21: the aggregate is canonical: every permutation of the list of input
\* files yields the same aggregate, in which each case name appears exactly
\* once and the cases are listed in ascending order of name.
C21_Canonical ==
    agg_out.state # "pending" =>
      /\ \A perm \in Orders(Len(agg_files)) :
           aggregate_cases(Reordered(agg_files, perm)) = agg_out
      /\ AggReturned =>
           \A i, j \in 1..Len(agg_out.cases) :
             i < j => \E a, b \in 1..Len(CaseNames) :
                        /\ a < b
                        /\ CaseNames[a] = agg_out.cases[i].name
                        /\ CaseNames[b] = agg_out.cases[j].name

\* a file the aggregator can take: an object whose cases hold numbers
WellFormed(file) ==
    /\ file.kind = "dict"
    /\ \A k \in 1..Len(file.cases) :
         /\ DirectionOk(Get(file.cases[k], "read", EmptyDict))
         /\ DirectionOk(Get(file.cases[k], "write", EmptyDict))

\* C7: an unreadable or malformed file is skipped entirely: the call
\* returns, and returns what it returns for the well-formed files alone
\* (an empty case list when there is none).
C7_MalformedSkipped ==
    agg_out.state \in {"returned", "raised"} =>
      /\ AggReturned
      /\ agg_out = aggregate_cases(SelectSeq(agg_files, WellFormed))

----------------------------------------------------------------------------
(* tools/compare.py : compare_cases                                        *)

\* a case of an aggregate artifact; every metric is a number
CmpCase(name, r, w) ==
    [ name |-> name,
      read |-> [iops |-> r[1], bw_MBps |-> r[2], lat_us |-> r[3]],
      write |-> [iops |-> w[1], bw_MBps |-> w[2], lat_us |-> w[3]] ]

\* the case names of the two aggregates that are compared
CmpNames == {"X", "Y"}

CmpCasePool ==
    {CmpCase(n, pr[1], pr[2]) :
       n \in CmpNames,
       pr \in { << <<1000, 100, 100>>, <<500, 50, 200>> >>,
                << <<1200, 100, 80>>,  <<0, 0, 0>> >>,
                << <<0, 0, 0>>,        <<500, 60, 250>> >> }}

\* None
Null == [null |-> TRUE]

\* {c['name']: c for c in doc.get('cases', [])}: the last case of a name wins
NameMap(cases) ==
    [n \in {cases[i].name : i \in 1..Len(cases)} |->
       cases[CHOOSE i \in 1..Len(cases) :
               /\ cases[i].name = n
               /\ \A j \in (i + 1)..Len(cases) : cases[j].name # n]]

\* a variant that compares every baseline name
ComparedNames_AllBaseline(amap, bmap) == DOMAIN amap

\* set(amap.keys()) & set(bmap.keys())
ComparedNames(amap, bmap) == DOMAIN amap \cap DOMAIN bmap

\* a variant without the guard on a zero baseline
metric_Unguarded(baseline, current) ==
    LET delta == current - baseline IN
    [ baseline |-> baseline, current |-> current, delta |-> delta,
      delta_pct |-> Frac(delta * 100, baseline) ]

\* the inner function metric(baseline, current)
metric(baseline, current) ==
    LET delta == current - baseline IN
    [ baseline |-> baseline, current |-> current, delta |-> delta,
      delta_pct |-> IF baseline # 0 THEN Frac(delta * 100, baseline) ELSE Null ]

\* a variant with the polarity of throughput: more is better
Trend_HigherIsBetter(delta) ==
    IF delta > 0 THEN "improved" ELSE IF delta < 0 THEN "declined" ELSE "flat"

\* 'improved' if delta < 0 else ('declined' if delta > 0 else 'flat')
Trend(delta) ==
    IF delta < 0 THEN "improved" ELSE IF delta > 0 THEN "declined" ELSE "flat"

\* metric(...) with rl['trend'] = ... added
LatencyMetric(baseline, current) ==
    LET m == metric(baseline, current) IN m @@ [trend |-> Trend(m.delta)]

\* the body of `for n in names`
Item(n, ca, cb) ==
    [ name |-> n,
      read_iops |-> metric(ca.read.iops, cb.read.iops),
      write_iops |-> metric(ca.write.iops, cb.write.iops),
      read_bw |-> metric(ca.read.bw_MBps, cb.read.bw_MBps),
      write_bw |-> metric(ca.write.bw_MBps, cb.write.bw_MBps),
      read_lat_us |-> LatencyMetric(ca.read.lat_us, cb.read.lat_us),
      write_lat_us |-> LatencyMetric(ca.write.lat_us, cb.write.lat_us) ]

\* a and b are the lists under 'cases' of the two documents
compare_cases(a, b) ==
    LET amap == NameMap(a)
        bmap == NameMap(b)
        names == SortedNames(ComparedNames(amap, bmap))
    IN  IF \E i \in 1..Len(names) :
             names[i] \notin DOMAIN amap \/ names[i] \notin DOMAIN bmap
        THEN [state |-> "raised"]                                \* KeyError
        ELSE [ state |-> "returned",
               items |-> [i \in 1..Len(names) |->
                            Item(names[i], amap[names[i]], bmap[names[i]])] ]

\* one call of compare_cases
Compare ==
    /\ cmp_out.state = "pending"
    /\ cmp_out' = compare_cases(cmp_a, cmp_b)
    /\ UNCHANGED <<cmp_a, cmp_b>>
    /\ UNCHANGED notCmp

InitCmp ==
    /\ cmp_a \in SeqsUpTo(CmpCasePool, MaxCmpCases)
    /\ cmp_b \in SeqsUpTo(CmpCasePool, MaxCmpCases)
    /\ cmp_out = [state |-> "pending"]
    /\ AllIdleBut({"cmp"})

NextCmp == Compare

SpecCmp == InitCmp /\ [][NextCmp]_vars

----------------------------------------------------------------------------
(* Properties of compare_cases, stated on the two input lists              *)

CmpDone == cmp_out.state # "pending" /\ cmp_out.state # "off"

NamesIn(cases) == {cases[i].name : i \in 1..Len(cases)}

\* the case of a name that a document's name map keeps
KeptCase(cases, n) == NameMap(cases)[n]

ThroughputKeys == {"read_iops", "write_iops", "read_bw", "write_bw"}
LatencyKeys == {"read_lat_us", "write_lat_us"}

\* the direction and the metric a key of an item is computed from
SourceOf(key) ==
    [ read_iops |-> <<"read", "iops">>, write_iops |-> <<"write", "iops">>,
      read_bw |-> <<"read", "bw_MBps">>, write_bw |-> <<"write", "bw_MBps">>,
      read_lat_us |-> <<"read", "lat_us">>,
      write_lat_us |-> <<"write", "lat_us">> ][key]

ValueIn(cases, n, key) ==
    KeptCase(cases, n)[SourceOf(key)[1]][SourceOf(key)[2]]

\* C8: every latency metric of every item carries the trend 'improved'
\* exactly when current < baseline, 'declined' exactly when current >
\* baseline and 'flat' exactly when they are equal; no IOPS or bandwidth
\* metric carries a trend.
C8_TrendOnLatencyOnly ==
    CmpDone =>
      /\ cmp_out.state = "returned"
      /\ \A i \in 1..Len(cmp_out.items) :
           LET it == cmp_out.items[i] IN
           /\ \A key \in LatencyKeys :
                LET base == ValueIn(cmp_a, it.name, key)
                    cur == ValueIn(cmp_b, it.name, key)
                IN  /\ "trend" \in DOMAIN it[key]
                    /\ it[key].trend \in {"improved", "declined", "flat"}
                    /\ it[key].trend = "improved" <=> cur < base
                    /\ it[key].trend = "declined" <=> cur > base
                    /\ it[key].trend = "flat" <=> cur = base
           /\ \A key \in ThroughputKeys : "trend" \notin DOMAIN it[key]

\* a comparison holding an improved latency, a declined one and a flat one
C8_Witness ==
    /\ cmp_out.state = "returned"
    /\ \A t \in {"improved", "declined", "flat"} :
         \E i \in 1..Len(cmp_out.items) : \E key \in LatencyKeys :
           cmp_out.items[i][key].trend = t

\* C9: for every metric of every item, delta = current - baseline, and
\* delta_pct = delta / baseline * 100 when the baseline is not zero and is
\* None when it is zero; no quotient has a zero divisor.
C9_DeltaAndPercent ==
    CmpDone =>
      /\ cmp_out.state = "returned"
      /\ \A i \in 1..Len(cmp_out.items) :
           LET it == cmp_out.items[i] IN
           \A key \in ThroughputKeys \cup LatencyKeys :
             LET base == ValueIn(cmp_a, it.name, key)
                 cur == ValueIn(cmp_b, it.name, key)
                 m == it[key]
             IN  /\ m.baseline = base /\ m.current = cur
                 /\ m.delta = cur - base
                 /\ base = 0 => m.delta_pct = Null
                 /\ base # 0 =>
                      /\ m.delta_pct # Null
                      /\ m.delta_pct.d # 0
                      /\ FracEq(m.delta_pct, Frac((cur - base) * 100, base))

\* a comparison holding a metric with a zero baseline and a non-zero
\* current value, and a metric that went from 1000 to 1200 (+20%)
C9_Witness ==
    /\ cmp_out.state = "returned"
    /\ \E i \in 1..Len(cmp_out.items) : \E key \in ThroughputKeys :
         LET m == cmp_out.items[i][key] IN m.baseline = 0 /\ m.current # 0
    /\ \E i \in 1..Len(cmp_out.items) :
         LET m == cmp_out.items[i].read_iops IN
         /\ m.baseline = 1000 /\ m.current = 1200
         /\ FracEq(m.delta_pct, Frac(20, 1))

\* C10: there is exactly one item for each case name present in both
\* lists and none for a name present in only one of them.
C10_ItemsAreIntersection ==
    CmpDone =>
      /\ cmp_out.state = "returned"
      /\ {cmp_out.items[i].name : i \in 1..Len(cmp_out.items)}
           = NamesIn(cmp_a) \cap NamesIn(cmp_b)
      /\ Len(cmp_out.items) = Cardinality(NamesIn(cmp_a) \cap NamesIn(cmp_b))

\* a comparison in which one name is in both lists and another one in the
\* baseline only
C10_Witness ==
    /\ cmp_out.state = "returned"
    /\ Len(cmp_out.items) = 1
    /\ NamesIn(cmp_a) \ NamesIn(cmp_b) # {}
    /\ Len(cmp_b) = 2

----------------------------------------------------------------------------
(* tools/compare.py : main, comparison of two aggregate artifacts          *)

\* the meta objects of an aggregate.json: p and vm_count, either may be
\* missing
MetaPool == UNION {[K -> {Num(2), Num(3)}] : K \in SUBSET {"p", "vm_count"}}

\* the case lists of the aggregates main is given
MainCaseLists ==
    { <<>>,
      <<CmpCase("X", <<1000, 100, 100>>, <<500, 50, 200>>)>>,
      <<CmpCase("X", <<1200, 100, 80>>, <<0, 0, 0>>),
        CmpCase("Y", <<0, 0, 0>>, <<500, 60, 250>>)>> }

\* a variant that only looks at the cluster size
MetaMismatch_POnly(ma, mb) == Get(ma, "p", Null) # Get(mb, "p", Null)

\* pa != pb or va != vb, with .get() giving None for a missing key
MetaMismatch(ma, mb) ==
    \/ Get(ma, "p", Null) # Get(mb, "p", Null)
    \/ Get(ma, "vm_count", Null) # Get(mb, "vm_count", Null)

\* the two artifacts written for a list of items
CompareArtifacts(ma, items) ==
    { [file |-> "A_vs_B.json", p |-> Get(ma, "p", Null),
       vm_count |-> Get(ma, "vm_count", Null), items |-> items],
      [file |-> "A_vs_B.md", p |-> Get(ma, "p", Null),
       vm_count |-> Get(ma, "vm_count", Null), items |-> items] }

\* main with two directories that both hold an aggregate.json, or with
\* --source centralized: both branches run the same statements
MainCompareAggregates ==
    /\ cmp_exit = "pending"
    /\ IF MetaMismatch(cmp_meta_a, cmp_meta_b)
       THEN /\ cmp_exit' = "SystemExit"
            /\ UNCHANGED <<cmp_out, cmp_written>>
       ELSE LET out == compare_cases(cmp_a, cmp_b) IN
            /\ cmp_out' = out
            /\ IF out.state = "raised"
               THEN cmp_exit' = "KeyError" /\ UNCHANGED cmp_written
               ELSE /\ cmp_written' = CompareArtifacts(cmp_meta_a, out.items)
                    /\ cmp_exit' = "ok"
    /\ UNCHANGED <<cmp_a, cmp_b, cmp_meta_a, cmp_meta_b>>
    /\ UNCHANGED notCmpMain

InitCmpMain ==
    /\ cmp_a \in MainCaseLists /\ cmp_b \in MainCaseLists
    /\ cmp_meta_a \in MetaPool /\ cmp_meta_b \in MetaPool
    /\ cmp_out = [state |-> "pending"]
    /\ cmp_written = {} /\ cmp_exit = "pending"
    /\ AllIdleBut({"cmp", "cmpmain"})

NextCmpMain == MainCompareAggregates

SpecCmpMain == InitCmpMain /\ [][NextCmpMain]_vars

\* C11: when the two aggregates differ in meta.p or in meta.vm_count the
\* comparison ends with an error, no item has been computed and no
\* comparison artifact has been written.
C11_MismatchRefused ==
    (/\ cmp_exit \notin {"off", "pending"}
     /\ \/ Get(cmp_meta_a, "p", Null) # Get(cmp_meta_b, "p", Null)
        \/ Get(cmp_meta_a, "vm_count", Null) # Get(cmp_meta_b, "vm_count", Null))
    => /\ cmp_exit = "SystemExit"
       /\ cmp_out.state = "pending"
       /\ cmp_written = {}

\* a refused comparison of two aggregates of the same cluster size but
\* different host counts that have a case name in common
C11_Witness ==
    /\ cmp_exit = "SystemExit"
    /\ "p" \in DOMAIN cmp_meta_a /\ "p" \in DOMAIN cmp_meta_b
    /\ cmp_meta_a["p"] = cmp_meta_b["p"]
    /\ "vm_count" \in DOMAIN cmp_meta_a /\ "vm_count" \in DOMAIN cmp_meta_b
    /\ cmp_meta_a["vm_count"] # cmp_meta_b["vm_count"]
    /\ NamesIn(cmp_a) \cap NamesIn(cmp_b) # {}

----------------------------------------------------------------------------
(* tools/check_fio_product.py : main                                       *)

\* the ceiling of iodepth * numjobs the check compares with
ProductCeiling == 256

\* the runner main constructs, and runners whose mapping for the two
\* deepest queues was edited
ChkMappings ==
    {[qd \in DOMAIN iodepth_numjobs_mapping |->
        IF qd = 16 THEN a ELSE IF qd = 32 THEN b
        ELSE iodepth_numjobs_mapping[qd]] :
     a \in {<<4, 8>>, <<4, 16>>, <<4, 32>>},
     b \in {<<4, 8>>, <<4, 16>>, <<16>>, <<1>>}}

ChkRunners ==
    {[block_sizes |-> bs, queue_depths |-> qds, mapping |-> m] :
       bs \in {Prefix(ConfiguredBlockSizes, 1), ConfiguredBlockSizes},
       qds \in {Prefix(ConfiguredQueueDepths, n) :
                  n \in 1..Len(ConfiguredQueueDepths)},
       m \in ChkMappings}

\* a variant that also rejects a product equal to the ceiling
Exceeds_AtCeiling(prod) == prod >= ProductCeiling

\* if prod > 256
Exceeds(prod) == prod > ProductCeiling

\* the three nested loops that fill `violations`
Violations(runner) ==
    Flatten([b \in 1..Len(runner.block_sizes) |->
      Flatten([q \in 1..Len(runner.queue_depths) |->
        LET qd == runner.queue_depths[q]
            njs == runner.mapping[qd]
        IN  SelectSeq([j \in 1..Len(njs) |->
                         [bs |-> runner.block_sizes[b], qd |-> qd,
                          nj |-> njs[j], prod |-> qd * njs[j]]],
                      LAMBDA v : Exceeds(v.prod))])])

\* return 1 if violations else 0
check_fio_product(runner) ==
    LET violations == Violations(runner) IN
    [ state |-> "returned",
      status |-> IF violations # <<>> THEN 1 ELSE 0,
      violations |-> violations ]

CheckFioProduct ==
    /\ chk_out.state = "pending"
    /\ chk_out' = check_fio_product(chk_runner)
    /\ UNCHANGED chk_runner
    /\ UNCHANGED notChk

InitChk ==
    /\ chk_runner \in ChkRunners
    /\ chk_out = [state |-> "pending"]
    /\ AllIdleBut({"chk"})

NextChk == CheckFioProduct

SpecChk == InitChk /\ [][NextChk]_vars

\* the (queue depth, concurrency) pairs of the scenarios of a matrix
MatrixPairs(runner) ==
    IF runner.block_sizes = <<>> THEN {}
    ELSE UNION {LET qd == runner.queue_depths[q] IN
                {<<qd, runner.mapping[qd][j]>> :
                   j \in 1..Len(runner.mapping[qd])} :
                q \in 1..Len(runner.queue_depths)}

\* the matrix FIOTestRunner.__init__ configures
ConfiguredRunner ==
    [ block_sizes |-> ConfiguredBlockSizes,
      queue_depths |-> ConfiguredQueueDepths,
      mapping |-> iodepth_numjobs_mapping ]

\* C13: every scenario of the swept matrix has queue_depth * concurrency
\* at most 256, and the validation pass returns 0 exactly when no (queue
\* depth, mapped concurrency) pair of the matrix it is given exceeds 256.
C13_ProductWithinCeiling ==
    /\ \A pr \in MatrixPairs(ConfiguredRunner) : pr[1] * pr[2] <= 256
    /\ chk_out.state = "returned" =>
         (chk_out.status = 0 <=>
            \A pr \in MatrixPairs(chk_runner) : pr[1] * pr[2] <= 256)

\* the pass over the configured matrix, which holds a pair whose product
\* is exactly 256, has returned 0
C13_Witness ==
    /\ chk_out.state = "returned"
    /\ chk_runner = ConfiguredRunner
    /\ \E pr \in MatrixPairs(chk_runner) : pr[1] * pr[2] = 256
    /\ chk_out.status = 0

----------------------------------------------------------------------------
(* One direct call of _parse_fio_json_output or _parse_fio_text_output      *)

\* documents with a second job, and documents whose job lacks a key
ParseDocs ==
    JsonDocs
    \cup {[top |-> "dict",
           jobs |-> <<[read |-> r, write |-> EmptyDict],
                      [read |-> [iops |-> 7, bw |-> Num(7168), lat_ns |-> LatObj(7000)],
                       write |-> [iops |-> 9, bw |-> Num(9216), lat_ns |-> LatObj(9000)]]>>] :
          r \in SubRecords(1000, 2048, 4000)}
    \cup {[top |-> "dict", jobs |-> <<[write |-> w]>>] : w \in SubRecords(500, 1024, 8000)}
    \cup {[top |-> "dict", jobs |-> <<[read |-> r]>>] : r \in SubRecords(1000, 2048, 4000)}

ParseOutputs ==
    {JsonOutput(d) : d \in ParseDocs} \cup {TextOutput(t) : t \in TextOutputs}

\* a TestResult as _run_fio_test and verify_file construct it
ParseFresh ==
    NewResult("VERIFY randrw", "randrw", "4k", 1, 1, 50)

\* the result the text parser is given after the JSON parser stopped on
\* write.bw of {"read": {"iops": 0, "bw": 2048}, "write": {"bw": "x"}}
ParsePartial == [ParseFresh EXCEPT !.read_mbps = 2]

ParseInputs ==
    {[path |-> "json", output |-> o, result |-> ParseFresh] : o \in ParseOutputs}
    \cup {[path |-> "text", output |-> o, result |-> r] :
            o \in ParseOutputs, r \in {ParseFresh, ParsePartial}}

\* runner._parse_fio_json_output(output, result)
ParseJson ==
    /\ parse_out.state = "pending"
    /\ parse_in.path = "json"
    /\ LET p == _parse_fio_json_output(parse_in.output.json, parse_in.result) IN
       parse_out' = [ state |-> IF p.raised THEN "raised" ELSE "returned",
                      result |-> p.result ]
    /\ UNCHANGED parse_in
    /\ UNCHANGED notParse

\* runner._parse_fio_text_output(output, result)
ParseText ==
    /\ parse_out.state = "pending"
    /\ parse_in.path = "text"
    /\ parse_out' = [ state |-> "returned",
                      result |-> _parse_fio_text_output(parse_in.output,
                                                        parse_in.result) ]
    /\ UNCHANGED parse_in
    /\ UNCHANGED notParse

InitParse ==
    /\ parse_in \in ParseInputs
    /\ parse_out = [state |-> "pending"]
    /\ AllIdleBut({"parse"})

NextParse ==
    \/ ParseJson
    \/ ParseText

SpecParse == InitParse /\ [][NextParse]_vars

----------------------------------------------------------------------------
(* Properties of the two parsers                                           *)

ParseDone == parse_out.state \in {"returned", "raised"}

\* the read or write sub-record of the first job of a document
SubRecordOf(doc, dir) == Get(doc.jobs[1], dir, EmptyDict)

\* a document of job records whose bandwidths are numbers and whose
\* latencies are objects
NumericDoc(doc) ==
    /\ doc.top = "dict"
    /\ doc.jobs # <<>>
    /\ \A dir \in {"read", "write"} :
         /\ Get(SubRecordOf(doc, dir), "bw", Num(0)).t = "num"
         /\ Get(SubRecordOf(doc, dir), "lat_ns", LatObj(0)).t = "obj"

\* C15: on the structured path the parser reads the first job only; for
\* each of its read and write sub-records that is present it sets IOPS to
\* iops, MB/s to bw / 1024 and the latency in microseconds to
\* lat_ns.mean / 1000 (a missing key counting as 0), it leaves the fields
\* of an absent sub-record at zero, and the throughput is the sum of the
\* two bandwidths.
C15_StructuredPath ==
    (ParseDone /\ parse_in.path = "json" /\ NumericDoc(parse_in.output.json)) =>
      LET doc == parse_in.output.json
          res == parse_out.result
      IN  /\ parse_out.state = "returned"
          /\ \A dir \in {"read", "write"} :
               LET sub == SubRecordOf(doc, dir) IN
               IF DOMAIN sub # {}
               THEN /\ res[dir \o "_iops"] = Get(sub, "iops", 0)
                    /\ res[dir \o "_mbps"] * 1024 = Get(sub, "bw", Num(0)).v
                    /\ res[dir \o "_latency_us"] * 1000
                         = Get(sub, "lat_ns", LatObj(0)).mean
               ELSE /\ res[dir \o "_iops"] = 0
                    /\ res[dir \o "_mbps"] = 0
                    /\ res[dir \o "_latency_us"] = 0
          /\ res.throughput_mbps = res.read_mbps + res.write_mbps

\* the document read.iops=1000, read.bw=2048, write.iops=500,
\* write.bw=1024 has been parsed to 2, 1 and a throughput of 3
C15_Witness ==
    /\ ParseDone /\ parse_in.path = "json"
    /\ parse_in.output.json = NominalDoc
    /\ parse_out.result.read_iops = 1000 /\ parse_out.result.write_iops = 500
    /\ parse_out.result.read_mbps = 2 /\ parse_out.result.write_mbps = 1
    /\ parse_out.result.throughput_mbps = 3

\* the lines of a text that carry the marker of a direction and an IOPS
\* token
MarkedLines(lines, dir) ==
    {i \in 1..Len(lines) : lines[i].mark = dir /\ HasIops(lines[i])}

\* every token of the marked lines is a plain number
PlainNumbers(lines) ==
    \A i \in 1..Len(lines) : \A k \in 1..Len(lines[i].parts) :
      lines[i].parts[k].num_ok

\* the last token of a line with the given key
LastPart(line, key) ==
    line.parts[CHOOSE k \in 1..Len(line.parts) :
                 /\ line.parts[k].key = key
                 /\ \A j \in (k + 1)..Len(line.parts) : line.parts[j].key # key]

\* C16: on the text path, a line with the marker of a direction and an
\* IOPS token sets that direction's IOPS to the token's value and its
\* MB/s to the BW value scaled by its unit: KiB/s divided by 1024, MiB/s
\* unchanged, GiB/s multiplied by 1024.
C16_TextPathUnits ==
    (ParseDone /\ parse_in.path = "text" /\ PlainNumbers(parse_in.output.lines)) =>
      LET lines == parse_in.output.lines
          res == parse_out.result
      IN  \A dir \in {"read", "write"} :
            LET ms == MarkedLines(lines, dir) IN
            ms # {} =>
              LET line == lines[CHOOSE i \in ms : \A j \in ms : j <= i] IN
              /\ res[dir \o "_iops"] = LastPart(line, "IOPS").val
              /\ (\E k \in 1..Len(line.parts) : line.parts[k].key = "BW") =>
                   LET bw == LastPart(line, "BW") IN
                   /\ bw.unit = "KiB/s" => res[dir \o "_mbps"] * 1024 = bw.val
                   /\ bw.unit = "MiB/s" => res[dir \o "_mbps"] = bw.val
                   /\ bw.unit = "GiB/s" => res[dir \o "_mbps"] = bw.val * 1024

\* C17: after either parser has returned, whether it ran to its end or
\* stopped on a value it could not parse, the throughput of the result is
\* the sum of its read and write bandwidth.
C17_ThroughputIsSum ==
    parse_out.state = "returned" =>
      parse_out.result.throughput_mbps
        = parse_out.result.read_mbps + parse_out.result.write_mbps

----------------------------------------------------------------------------
(* main() of main.py and of fio_test.py around a full matrix run           *)

\* a tool whose every invocation exits with a well-formed document
SteadyTool ==
    [ files   |-> {NominalFile},
      stdouts |-> {NominalStdout},
      stderrs |-> {},
      raises  |-> {},
      maxfaults |-> 0 ]

\* cleanup_test_files: every fio_test_* file is removed
cleanup_test_files(files) == {}

\* the run returned: summary, reports, then the optional cleanup; return 0
MainFinish ==
    /\ main_exit = "running"
    /\ pc = "returned"
    /\ main_reported' = [state |-> "reported", results |-> all_results]
    /\ test_files' = IF main_cleanup THEN cleanup_test_files(test_files)
                     ELSE test_files
    /\ main_exit' = "exit0"
    /\ UNCHANGED <<main_entry, main_cleanup>>
    /\ UNCHANGED <<filesystem, block_sizes, queue_depths, rwmix_ratios,
                   core_scenarios, pc, caller, core_i, results, scenario_count,
                   all_results, result, fio_command, tool, faults, calls,
                   attempts, core_attempts>>
    /\ UNCHANGED <<aggVars, cmpVars, cmpMainVars, chkVars, parseVars, coVars,
                   repVars, monVars>>

\* KeyboardInterrupt while run_comprehensive_fio_tests is on the stack: no
\* frame between the interrupted statement and main catches it (the
\* except clauses on the way name Exception and TimeoutExpired), so the
\* lists of the run are dropped with their frames; results and
\* all_results keep the value they had when that happened.  The handler
\* of main.py prints and returns 1; the handler of fio_test.py also runs
\* cleanup_test_files when args.cleanup is set.
Interrupt ==
    /\ main_exit = "running"
    /\ pc \in {"core", "sweep", "fallback"}
    /\ pc' = "interrupted"
    /\ test_files' = IF main_entry = "fio_test.py" /\ main_cleanup
                     THEN cleanup_test_files(test_files)
                     ELSE test_files
    /\ main_exit' = "exit1"
    /\ UNCHANGED <<main_entry, main_cleanup, main_reported>>
    /\ UNCHANGED <<filesystem, block_sizes, queue_depths, rwmix_ratios,
                   core_scenarios, caller, core_i, results, scenario_count,
                   all_results, result, fio_command, tool, faults, calls,
                   attempts, core_attempts>>
    /\ UNCHANGED <<aggVars, cmpVars, cmpMainVars, chkVars, parseVars, coVars,
                   repVars, monVars>>

InitMain ==
    /\ InitRunner(SteadyTool)
    /\ main_entry \in {"main.py", "fio_test.py"}
    /\ main_cleanup \in BOOLEAN
    /\ main_reported = [state |-> "none"]
    /\ main_exit = "running"
    /\ AllIdleBut({"fio", "main"})

NextMain ==
    \/ RunCoreScenario
    \/ CoreDone
    \/ RunSweepScenario
    \/ Return
    \/ MainFinish
    \/ Interrupt

SpecMain == InitMain /\ [][NextMain]_vars

\* backing files an earlier run left in test_dir
PriorFiles ==
    { [name |-> "fio_test_4k_1_1_0", made |-> "before"],
      [name |-> "fio_test_4k_1_1_70", made |-> "before"],
      [name |-> "fio_test_8k_2_1_0", made |-> "before"] }

\* a run over one block size and queue depth and two read percentages, in
\* a test_dir that may hold backing files already, with a tool that can
\* fail or time out
InitFiles ==
    /\ filesystem \in Filesystems
    /\ block_sizes = Prefix(ConfiguredBlockSizes, 1)
    /\ queue_depths = Prefix(ConfiguredQueueDepths, 1)
    /\ rwmix_ratios = Prefix(ConfiguredRwmix, 2)
    /\ core_scenarios \in SeqsUpTo(CorePool, 1)
    /\ pc = "core" /\ caller = "" /\ core_i = 1 /\ results = <<>>
    /\ scenario_count = 0 /\ all_results = <<>>
    /\ result = NoResult /\ fio_command = EmptyDict
    /\ test_files \in SUBSET PriorFiles /\ tool = PlainTool /\ faults = 0
    /\ calls = <<>> /\ attempts = <<>> /\ core_attempts = <<>>
    /\ main_entry \in {"main.py", "fio_test.py"}
    /\ main_cleanup \in BOOLEAN
    /\ main_reported = [state |-> "none"]
    /\ main_exit = "running"
    /\ AllIdleBut({"fio", "main"})

NextFiles ==
    \/ RunCoreScenario
    \/ CoreDone
    \/ RunSweepScenario
    \/ Fallback
    \/ Return
    \/ MainFinish
    \/ Interrupt

SpecFiles == InitFiles /\ [][NextFiles]_vars

FileNames(files) == {f.name : f \in files}

\* the backing file of a result, from the fields of the result
FileOfResult(res) ==
    "fio_test_" \o res.block_size \o "_" \o ToString(res.queue_depth) \o "_"
    \o ToString(res.numjobs) \o "_" \o ToString(res.rwmix_read)

\* a step of the cleanup operation
CleanupStep ==
    /\ main_exit = "running" /\ main_exit' # "running"
    /\ main_cleanup
    /\ main_exit' = "exit0" \/ main_entry = "fio_test.py"

\* C22: a scenario creates its backing file only when no file of that name
\* exists and otherwise leaves the existing file as it is; running a
\* scenario (successfully, with a fallback, or with an error) never deletes
\* a backing file; backing files are removed only by the cleanup operation,
\* which removes all of them.
C22_BackingFiles ==
    /\ [](main_exit = "running" =>
            \A i \in 1..Len(Produced) :
                FileOfResult(Produced[i].res) \in FileNames(test_files))
    /\ [][ IF CleanupStep THEN test_files' = {}
           ELSE /\ test_files \subseteq test_files'
                /\ \A f \in test_files' \ test_files :
                      /\ f.made = "run"
                      /\ f.name \notin FileNames(test_files) ]_vars

\* a run in which one scenario reused a file left by an earlier run and
\* another created its own, one of them ending in an error or a fallback
C22_Witness ==
    /\ pc = "returned"
    /\ \E i, j \in 1..Len(Produced) :
         /\ [name |-> FileOfResult(Produced[i].res), made |-> "before"] \in test_files
         /\ [name |-> FileOfResult(Produced[j].res), made |-> "run"] \in test_files
         /\ Len(Produced[i].log) = 2 \/ Produced[i].res.error_message # ""

\* the results of the scenarios that had completed
CompletedResults ==
    IF pc = "interrupted" /\ Len(all_results) < Len(results)
    THEN results ELSE all_results

\* C18: when a user interrupt arrives during a full matrix run after k
\* scenarios have completed, the run still reports those k results and,
\* when cleanup was requested, removes the backing files.
C18_InterruptKeepsResults ==
    (pc = "interrupted" /\ main_exit # "running") =>
      /\ main_reported.state = "reported"
      /\ main_reported.results = CompletedResults
      /\ main_cleanup => test_files = {}

\* ---------------------------------------------------------------------
\* A coordinated run: tools/dispatch.py sends one remote command per host,
\* each host runs main.py, tools/collect.py pulls the results.
\* ---------------------------------------------------------------------

Hosts == {"vm1", "vm2"}

\* a wall-clock minute, as datetime.strptime(..., '%Y-%m-%d %H:%M') holds it
Minute(y, mo, d, h, mi) == [y |-> y, mo |-> mo, d |-> d, h |-> h, mi |-> mi]

\* the start_time_utc values of the cluster descriptor
StartTimes == {Minute(2026, 1, 1, h, mi) : h \in {9, 17}, mi \in {5, 30}}

\* what a host's local clock shows when main.py starts there: the scheduled
\* UTC minute, the minute after it, or the same instant in a zone 8 h ahead
HostClocks(start) ==
    {start, [start EXCEPT !.mi = @ + 1], [start EXCEPT !.h = (@ + 8) % 24]}

Pad2(n) == IF n < 10 THEN "0" \o ToString(n) ELSE ToString(n)

\* strftime('%Y%m%d-%H%M')
strftime(dt) ==
    ToString(dt.y) \o Pad2(dt.mo) \o Pad2(dt.d) \o "-" \o Pad2(dt.h) \o Pad2(dt.mi)

\* collect.py and aggregate.py: the stamp of the descriptor's start time
stamp_from_start(start_time_utc_min) == strftime(start_time_utc_min)

\* the main.py arguments given after "--" on dispatch's command line
DispatchArgs ==
    { <<>>, <<"--fio-only">>, <<"--fio-only", "--quick">>,
      <<"--quick", "--stamp", "20260101-0905">> }

InSeq(x, seq) == \E i \in 1..Len(seq) : seq[i] = x

\* dispatch.py build_remote_command: the stamp is appended to main.py's
\* arguments unless they already name one; the log directory is made by the
\* remote shell before main.py starts
build_remote_command(start_time_utc_min, main_args) ==
    LET stamp == strftime(start_time_utc_min)
    IN  [ main_args |-> IF InSeq("--stamp", main_args) THEN main_args
                        ELSE main_args \o <<"--stamp", stamp>>,
          log_dir   |-> stamp ]

\* the options main.py's argument parser declares
MainFlags == {"--all", "--dd-only", "--fio-only", "--fio-info", "--quick", "--cleanup"}
MainValued == {"--test-dir", "--runtime", "--output"}

\* main.py parser.parse_args(): FALSE when argparse exits with
\* "unrecognized arguments"
RECURSIVE parse_args(_)
parse_args(argv) ==
    IF argv = <<>> THEN TRUE
    ELSE IF Head(argv) \in MainFlags THEN parse_args(Tail(argv))
    ELSE IF Head(argv) \in MainValued /\ Len(argv) >= 2
         THEN parse_args(Tail(Tail(argv)))
    ELSE FALSE

ReportFile(dir, name) == [dir |-> dir, name |-> name]

\* main.py main(): run_all_tests stamps the run with the local clock, then
\* generate_report writes the main report and report.json under that stamp
MainPyFiles(argv, clock) ==
    IF ~parse_args(argv) THEN {}
    ELSE LET ts == strftime(clock)
             quick == InSeq("--quick", argv)
         IN  { ReportFile(ts, "storage_performance_report_" \o ts
                               \o (IF quick THEN "-quick.md" ELSE ".md")),
               ReportFile(ts, "report.json") }

\* dispatch.py main: one remote command per host of the descriptor
Dispatch ==
    /\ co_phase = "configured"
    /\ co_cmd' = [h \in Hosts |-> build_remote_command(co_start, co_args)]
    /\ co_phase' = "dispatched"
    /\ UNCHANGED <<co_start, co_args, co_clock, co_ran, co_files, co_pulled>>
    /\ UNCHANGED notCo

\* the remote command on one host: mkdir -p <log_dir>; main.py <args> | tee
\* -a <log_dir>/run.log
RemoteRun(h) ==
    /\ co_phase \in {"dispatched", "collected"}
    /\ h \notin co_ran
    /\ co_files' = [co_files EXCEPT ![h] =
            {ReportFile(co_cmd[h].log_dir, "run.log")}
            \cup MainPyFiles(co_cmd[h].main_args, co_clock[h])]
    /\ co_ran' = co_ran \cup {h}
    /\ UNCHANGED <<co_start, co_args, co_clock, co_phase, co_cmd, co_pulled>>
    /\ UNCHANGED notCo

\* collect.py main: per host, the report (quick name first) and report.json
\* under test_data/reports/<stamp>
Collect ==
    /\ co_phase = "dispatched"
    /\ LET stamp == stamp_from_start(co_start)
           wanted == { "storage_performance_report_" \o stamp \o "-quick.md",
                       "storage_performance_report_" \o stamp \o ".md",
                       "report.json" }
       IN  co_pulled' = [h \in Hosts |->
               {f \in co_files[h] : f.dir = stamp /\ f.name \in wanted}]
    /\ co_phase' = "collected"
    /\ UNCHANGED <<co_start, co_args, co_clock, co_cmd, co_ran, co_files>>
    /\ UNCHANGED notCo

InitCoord ==
    /\ co_start \in StartTimes
    /\ co_args \in DispatchArgs
    /\ co_clock \in [Hosts -> HostClocks(co_start)]
    /\ co_phase = "configured"
    /\ co_cmd = EmptyDict
    /\ co_ran = {}
    /\ co_files = [h \in Hosts |-> {}]
    /\ co_pulled = EmptyDict
    /\ AllIdleBut({"co"})

NextCoord == Dispatch \/ (\E h \in Hosts : RemoteRun(h)) \/ Collect

SpecCoord == InitCoord /\ [][NextCoord]_vars

\* C19: in a coordinated run every host whose remote command has ended has
\* written its result file, and every file it wrote, under the stamp of the
\* descriptor's start time, which is also the stamp dispatch sent to it.
C19_OneStampPerRun ==
    \A h \in co_ran :
        /\ co_cmd[h].log_dir = stamp_from_start(co_start)
        /\ \E f \in co_files[h] : f.name = "report.json"
        /\ \A f \in co_files[h] : f.dir = stamp_from_start(co_start)

\* ---------------------------------------------------------------------
\* The report files of one run of StoragePerformanceTest (main.py).
\* A path is a sequence of tokens; "/" and "." are tokens of their own and
\* so is every literal the code inserts, so that the path functions work on
\* the structure of the path.
\* ---------------------------------------------------------------------

MaxTicks == 2

\* the minute after dt (the clocks used stay inside one month)
NextMinute(dt) ==
    IF dt.mi < 59 THEN [dt EXCEPT !.mi = @ + 1]
    ELSE IF dt.h < 23 THEN [dt EXCEPT !.mi = 0, !.h = @ + 1]
    ELSE [dt EXCEPT !.mi = 0, !.h = 0, !.d = @ + 1]

\* the local clock when the StoragePerformanceTest is constructed
RunClocks == {Minute(2026, 1, 1, 9, 5), Minute(2026, 1, 1, 9, 59)}

\* args.test_dir
TestDir == <<".", "/", "test_data">>

\* args.output: <<>> is None
OutputFiles ==
    { <<>>,
      <<"custom", ".", "md">>,
      <<"out", "/", "report", ".", "md">>,
      <<"out", "/", "summary">>,
      <<"out", ".", "d", "/", "report">> }

\* the largest i with path[i] = tok, 0 when there is none
LastIndex(path, tok) ==
    LET I == {i \in 1..Len(path) : path[i] = tok}
    IN  IF I = {} THEN 0 ELSE CHOOSE i \in I : \A j \in I : j <= i

\* os.path.dirname, os.path.basename, os.path.join
dirname(path) ==
    LET i == LastIndex(path, "/") IN IF i = 0 THEN <<>> ELSE SubSeq(path, 1, i - 1)
basename(path) == SubSeq(path, LastIndex(path, "/") + 1, Len(path))
join(dirn, name) == IF dirn = <<>> THEN name ELSE dirn \o <<"/">> \o name

\* os.path.splitext: the extension starts at the last dot, leading dots of
\* the name aside
splitext(name) ==
    LET i == LastIndex(name, ".")
    IN  IF i = 0 \/ \A j \in 1..i : name[j] = "."
        THEN <<name, <<>>>>
        ELSE <<SubSeq(name, 1, i - 1), SubSeq(name, i, Len(name))>>

\* base, ext = os.path.splitext(name); f"{base}-quick{ext}"
QuickName(name) ==
    LET be == splitext(name) IN be[1] \o <<"-quick">> \o be[2]

\* a variant that stamps every file with the clock at the time of writing
RunStamp_Now(ts, clock) == strftime(clock)

\* ts = self.run_timestamp or time.strftime('%Y%m%d-%H%M')
RunStamp(ts, clock) == IF ts # <<>> THEN ts[1] ELSE strftime(clock)

\* os.path.join(self.test_dir, "reports", ts)
ReportsDir(ts) == TestDir \o <<"/", "reports", "/", ts>>

\* run_all_tests up to the first test: the stamp and the mode are fixed
RunAllTests(quick) ==
    /\ rep_pc = "new"
    /\ run_timestamp' = <<strftime(rep_clock)>>
    /\ quick_mode' = quick
    /\ rep_pc' = "testing"
    /\ UNCHANGED <<rep_clock, rep_ticks, rep_files, rep_calls>>
    /\ UNCHANGED notRep

\* a minute passes while the tests run or before the report is generated
Tick ==
    /\ rep_pc \in {"testing", "tested"}
    /\ rep_ticks < MaxTicks
    /\ rep_clock' = NextMinute(rep_clock)
    /\ rep_ticks' = rep_ticks + 1
    /\ UNCHANGED <<rep_pc, run_timestamp, quick_mode, rep_files, rep_calls>>
    /\ UNCHANGED notRep

\* the rest of run_all_tests: run_fio_tests (when included) writes the
\* detailed report if there are results
RunFioTests(include_fio, has_results) ==
    /\ rep_pc = "testing"
    /\ rep_files' =
         IF include_fio /\ has_results
         THEN LET ts == RunStamp(run_timestamp, rep_clock)
                  name == <<"fio_detailed_report", ".", "md">>
              IN  rep_files \cup
                    {join(ReportsDir(ts), IF quick_mode THEN QuickName(name) ELSE name)}
         ELSE rep_files
    /\ rep_pc' = "tested"
    /\ UNCHANGED <<rep_clock, rep_ticks, run_timestamp, quick_mode, rep_calls>>
    /\ UNCHANGED notRep

\* generate_report(dd_results, fio_results, output_file): the main report and
\* report.json beside it
GenerateReport(output_file) ==
    /\ rep_pc \in {"tested", "reported"}
    /\ output_file \notin rep_calls
    /\ LET ts == RunStamp(run_timestamp, rep_clock)
           name == <<"storage_performance_report_", ts, ".", "md">>
           out == IF output_file = <<>>
                  THEN join(ReportsDir(ts), IF quick_mode THEN QuickName(name) ELSE name)
                  ELSE IF quick_mode
                       THEN join(dirname(output_file), QuickName(basename(output_file)))
                       ELSE output_file
       IN  rep_files' = rep_files \cup {out, join(dirname(out), <<"report", ".", "json">>)}
    /\ rep_calls' = rep_calls \cup {output_file}
    /\ rep_pc' = "reported"
    /\ UNCHANGED <<rep_clock, rep_ticks, run_timestamp, quick_mode>>
    /\ UNCHANGED notRep

InitReport ==
    /\ rep_clock \in RunClocks
    /\ rep_ticks = 0
    /\ rep_pc = "new"
    /\ run_timestamp = <<>>
    /\ quick_mode = FALSE
    /\ rep_files = {}
    /\ rep_calls = {}
    /\ AllIdleBut({"rep"})

NextReport ==
    \/ \E quick \in BOOLEAN : RunAllTests(quick)
    \/ Tick
    \/ \E include_fio, has_results \in BOOLEAN : RunFioTests(include_fio, has_results)
    \/ \E output_file \in OutputFiles : GenerateReport(output_file)

SpecReport == InitReport /\ [][NextReport]_vars

\* path is a file directly inside the directory dir
InDir(path, dir) ==
    /\ Len(path) > Len(dir) + 1
    /\ SubSeq(path, 1, Len(dir)) = dir
    /\ path[Len(dir) + 1] = "/"
    /\ \A i \in (Len(dir) + 2)..Len(path) : path[i] # "/"

\* path and other lie in the same directory
Sibling(path, other) ==
    \E k \in 0..Len(other) :
        /\ k = 0 \/ other[k] = "/"
        /\ k <= Len(path)
        /\ SubSeq(path, 1, k) = SubSeq(other, 1, k)
        /\ \A i \in (k + 1)..Len(other) : other[i] # "/"
        /\ \A i \in (k + 1)..Len(path) : path[i] # "/"

\* "-quick" stands immediately before the extension, or at the end of a
\* name without one
QuickSuffixed(path) ==
    LET n == Len(path)
    IN  \/ n >= 1 /\ path[n] = "-quick"
        \/ n >= 2 /\ path[n] = "." /\ path[n - 1] = "-quick"
        \/ n >= 3 /\ path[n - 1] = "." /\ path[n - 2] = "-quick"

IsJson(path) == Len(path) >= 3 /\ SubSeq(path, Len(path) - 2, Len(path)) = <<"report", ".", "json">>

\* the stamp is the clock reading of the start of run_all_tests
StampFixedAtStart ==
    /\ rep_pc # "new" => run_timestamp # <<>>
    /\ rep_pc # "new" /\ rep_ticks = 0 => run_timestamp = <<strftime(rep_clock)>>

\* the suffix rule of quick mode, and no suffix outside it
QuickRule ==
    \A f \in rep_files :
        IF quick_mode /\ ~IsJson(f) THEN QuickSuffixed(f)
        ELSE \A i \in 1..Len(f) : f[i] # "-quick"

\* C20, as stated: every report file of a run lies in
\* test_dir/reports/<run_timestamp>, the stamp taken once at the start of
\* run_all_tests however long the run takes, and in quick mode every report
\* carries "-quick" immediately before its extension.
C20_AllInReportsDir ==
    /\ StampFixedAtStart
    /\ QuickRule
    /\ rep_pc \in {"tested", "reported"} =>
         \A f \in rep_files : InDir(f, ReportsDir(run_timestamp[1]))

\* C20, amended: the FIO detailed report, and the main report and
\* report.json of a call without an output path, lie in
\* test_dir/reports/<run_timestamp>, the stamp taken once at the start of
\* run_all_tests however long the run takes; the main report and report.json
\* of a call with an output path lie in the directory of that path; in quick
\* mode every report carries "-quick" immediately before its extension.
C20_ReportsDirUnlessOutputGiven ==
    /\ StampFixedAtStart
    /\ QuickRule
    /\ rep_pc \in {"tested", "reported"} =>
         /\ \A f \in rep_files :
              \/ InDir(f, ReportsDir(run_timestamp[1]))
              \/ \E o \in rep_calls \ {<<>>} : Sibling(f, o)
         /\ \A f \in rep_files :
              (\E i \in 1..Len(f) : f[i] = "fio_detailed_report")
                  => InDir(f, ReportsDir(run_timestamp[1]))
         /\ <<>> \in rep_calls =>
              \E f, g \in rep_files :
                  /\ InDir(f, ReportsDir(run_timestamp[1])) /\ IsJson(f)
                  /\ InDir(g, ReportsDir(run_timestamp[1]))
                  /\ \E i \in 1..Len(g) : g[i] = "storage_performance_report_"
         /\ \A o \in rep_calls \ {<<>>} :
              \E f, g \in rep_files :
                  /\ Sibling(f, o) /\ IsJson(f)
                  /\ Sibling(g, o) /\ ~IsJson(g)

\* a quick run that took longer than a minute and wrote the detailed report,
\* the default main report and a report at a supplied path
C20_Witness ==
    /\ rep_pc = "reported"
    /\ quick_mode
    /\ rep_ticks >= 1
    /\ {<<>>, <<"custom", ".", "md">>} \subseteq rep_calls
    /\ <<"custom", "-quick", ".", "md">> \in rep_files
    /\ \E f \in rep_files : \E i \in 1..Len(f) : f[i] = "fio_detailed_report"

\* ---------------------------------------------------------------------
\* run_quick_fio_tests beside run_comprehensive_fio_tests: both start with
\* _run_core_scenarios and go on with their own list of scenarios.
\* ---------------------------------------------------------------------

\* quick_configs, each (block_size, queue_depth, numjobs, rwmix_read, test_type)
quick_configs ==
    << Scenario("randwrite", "4k", 1, 1, 0),
       Scenario("randread", "4k", 1, 1, 100),
       Scenario("randrw", "4k", 1, 1, 50),
       Scenario("randwrite", "4k", 32, 4, 0),
       Scenario("randread", "4k", 32, 4, 100),
       Scenario("randwrite", "64k", 8, 1, 0),
       Scenario("randread", "64k", 8, 1, 100),
       Scenario("randrw", "64k", 8, 1, 50),
       Scenario("randwrite", "1m", 4, 1, 0),
       Scenario("randread", "1m", 4, 1, 100) >>

\* run_quick_fio_tests: _run_core_scenarios returned; results.extend(core)
CoreDoneQuick ==
    /\ pc = "core"
    /\ core_i > Len(core_scenarios)
    /\ all_results' = all_results \o results
    /\ attempts' = attempts \o core_attempts
    /\ pc' = "quick"
    /\ UNCHANGED <<filesystem, block_sizes, queue_depths, rwmix_ratios,
                   core_scenarios, caller, core_i, results, scenario_count,
                   result, fio_command, test_files, tool, faults, calls,
                   core_attempts>>
    /\ UNCHANGED notFio

\* one iteration of the loop over quick_configs
RunQuickScenario ==
    /\ pc = "quick"
    /\ scenario_count < Len(quick_configs)
    /\ scenario_count' = scenario_count + 1
    /\ Primary("quick", quick_configs[scenario_count + 1])
    /\ UNCHANGED <<filesystem, block_sizes, queue_depths, rwmix_ratios,
                   core_scenarios, core_i, tool>>
    /\ UNCHANGED notFio

\* run_quick_fio_tests: return results
ReturnQuick ==
    /\ pc = "quick"
    /\ scenario_count = Len(quick_configs)
    /\ pc' = "returned"
    /\ UNCHANGED <<filesystem, block_sizes, queue_depths, rwmix_ratios,
                   core_scenarios, caller, core_i, results, scenario_count,
                   all_results, result, fio_command, test_files, tool, faults,
                   calls, attempts, core_attempts>>
    /\ UNCHANGED notFio

\* a runner over one block size and one queue depth, about to make a full
\* or a quick run
InitRuns ==
    /\ filesystem \in Filesystems
    /\ block_sizes = Prefix(ConfiguredBlockSizes, 1)
    /\ queue_depths = Prefix(ConfiguredQueueDepths, 1)
    /\ rwmix_ratios = Prefix(ConfiguredRwmix, 2)
    /\ core_scenarios \in SeqsUpTo(CorePool, MaxCore)
    /\ pc = "core" /\ caller = "" /\ core_i = 1 /\ results = <<>>
    /\ scenario_count = 0 /\ all_results = <<>>
    /\ result = NoResult /\ fio_command = EmptyDict
    /\ test_files = {} /\ tool = PlainTool /\ faults = 0
    /\ calls = <<>> /\ attempts = <<>> /\ core_attempts = <<>>
    /\ AllIdleBut({"fio"})

NextRuns ==
    \/ RunCoreScenario
    \/ CoreDone
    \/ CoreDoneQuick
    \/ RunSweepScenario
    \/ RunQuickScenario
    \/ Fallback
    \/ Return
    \/ ReturnQuick

SpecRuns == InitRuns /\ [][NextRuns]_vars

StartsWith(str, prefix) ==
    Len(str) >= Len(prefix) /\ SubSeq(str, 1, Len(prefix)) = prefix

\* the scenarios of the run after the core ones, as far as they have run
RunScenarios == IF pc = "quick" \/ scenario_count > Len(SweepScenarios)
                THEN quick_configs ELSE SweepScenarios

\* C23: in full and quick runs alike the results of the core scenarios come
\* before the results of all other scenarios in the returned list, every
\* core result's name starts with "CORE " and no other result's name does.
C23_CoreFirstAndTagged ==
    pc = "returned" =>
      /\ Len(all_results) = Len(ValidCore) + scenario_count
      /\ \A i \in 1..Len(ValidCore) :
           /\ StartsWith(all_results[i].test_name, "CORE ")
           /\ IsResultOf(all_results[i], CoreScenario(ValidCore[i]), "CORE ")
      /\ \A i \in 1..scenario_count :
           /\ ~StartsWith(all_results[Len(ValidCore) + i].test_name, "CORE ")
           /\ IsResultOf(all_results[Len(ValidCore) + i], RunScenarios[i], "")

\* a returned quick run with a core result in front
C23_Witness ==
    /\ pc = "returned"
    /\ scenario_count = Len(quick_configs)
    /\ Len(ValidCore) >= 1
    /\ StartsWith(all_results[1].test_name, "CORE ")
    /\ all_results[Len(all_results)].block_size = "1m"

\* a returned full run with a core result in front
C23_WitnessFull ==
    /\ pc = "returned"
    /\ scenario_count = Len(SweepScenarios)
    /\ Len(ValidCore) >= 1
    /\ StartsWith(all_results[1].test_name, "CORE ")

\* ---------------------------------------------------------------------
\* total_scenarios against the scenario counter of the sweep, for the
\* runner as configured and for runners whose mapping was edited.
\* ---------------------------------------------------------------------

\* len(block_sizes) * len(queue_depths) * 2 * len(rwmix_ratios)
total_scenarios(runner) ==
    Len(runner.block_sizes) * Len(runner.queue_depths) * 2 * Len(ConfiguredRwmix)

\* the iterations of the four nested loops of run_comprehensive_fio_tests
LoopIterations(runner) ==
    Flatten([b \in 1..Len(runner.block_sizes) |->
      Flatten([q \in 1..Len(runner.queue_depths) |->
        LET numjobs_list == runner.mapping[runner.queue_depths[q]] IN
        Flatten([j \in 1..Len(numjobs_list) |->
          [m \in 1..Len(ConfiguredRwmix) |->
             <<runner.block_sizes[b], runner.queue_depths[q], numjobs_list[j],
               ConfiguredRwmix[m]>>]])])])

\* scenario_count += 1 and the progress line "[scenario_count/total]"
SweepStep ==
    /\ chk_out.state = "sweeping"
    /\ chk_out.count < Len(LoopIterations(chk_runner))
    /\ chk_out' = [chk_out EXCEPT !.count = @ + 1]
    /\ UNCHANGED chk_runner
    /\ UNCHANGED notChk

\* the loops are exhausted
SweepEnd ==
    /\ chk_out.state = "sweeping"
    /\ chk_out.count = Len(LoopIterations(chk_runner))
    /\ chk_out' = [chk_out EXCEPT !.state = "swept"]
    /\ UNCHANGED chk_runner
    /\ UNCHANGED notChk

\* __init__ has computed total_scenarios; scenario_count = 0
InitTotal ==
    /\ chk_runner \in ChkRunners
    /\ chk_out = [state |-> "sweeping", total |-> total_scenarios(chk_runner),
                  count |-> 0]
    /\ AllIdleBut({"chk"})

NextTotal == SweepStep \/ SweepEnd

SpecTotal == InitTotal /\ [][NextTotal]_vars

\* sum over the queue depths of |concurrency values| * |block sizes| * |read mixes|
RECURSIVE SumOverDepths(_, _)
SumOverDepths(runner, qds) ==
    IF qds = <<>> THEN 0
    ELSE Len(runner.mapping[Head(qds)]) * Len(runner.block_sizes)
           * Len(ConfiguredRwmix)
         + SumOverDepths(runner, Tail(qds))

ReadContaining(kind) == kind \in {"read", "randread", "rw", "readwrite", "randrw"}

\* C25: the engine policy of a command follows from the filesystem probed
\* at construction and the test kind: on 9p the command uses the
\* synchronous engine and disables direct I/O for every kind that reads,
\* the sequential-read and mixed kinds of core scenarios included; on any
\* other filesystem it uses the asynchronous engine with direct I/O.
C25_EnginePolicy ==
    \A i \in 1..Len(Produced) :
      LET res == Produced[i].res
          cmd == Produced[i].log[1].command
      IN  IF filesystem = "9p"
          THEN /\ cmd.ioengine = "psync"
               /\ ReadContaining(res.test_type) => cmd.direct = 0
          ELSE /\ cmd.ioengine = "libaio"
               /\ cmd.direct = 1

\* C26: the command recorded in a result is the invocation that produced
\* its metrics: the fallback command (synchronous engine, direct I/O
\* disabled) when the metrics come from the fallback invocation made after
\* a timeout of the primary one.
C26_CommandIsTheOneThatRan ==
    \A i \in 1..Len(Produced) :
      LET res == Produced[i].res
          log == Produced[i].log
      IN  IF Len(log) = 2 /\ Last(log).outcome = "exit0"
          THEN /\ res.command = Last(log).command
               /\ res.command.ioengine = "sync" /\ res.command.direct = 0
          ELSE res.command = log[1].command

\* the scenario a result belongs to, from the fields of the result
ScenarioOf(res) ==
    Scenario(res.test_type, res.block_size, res.queue_depth, res.numjobs,
             res.rwmix_read)

MetricsOf(res) ==
    <<res.read_iops, res.write_iops, res.read_mbps, res.write_mbps,
      res.read_latency_us, res.write_latency_us, res.throughput_mbps>>

\* C27: whenever an invocation exits with status zero and structured
\* parsing of its output fails or yields neither a read nor a write IOPS
\* value, the text parser is applied to the text output of that invocation
\* before the result is returned, after the primary and after the fallback
\* invocation alike.
C27_TextFallbackApplied ==
    \A i \in 1..Len(Produced) :
      LET res == Produced[i].res
          last == Last(Produced[i].log)
      IN  last.outcome = "exit0" =>
            LET o == ReadOutput(FreshResult(ScenarioOf(res), filesystem),
                                last.run.file, last.run.stdout)
            IN  (o.parser_raised
                   \/ (o.result.read_iops = 0 /\ o.result.write_iops = 0)) =>
                MetricsOf(res)
                  = MetricsOf(_parse_fio_text_output(last.run.stdout, o.result))

\* ---------------------------------------------------------------------
\* The pipeline from the hosts' results to the aggregate: generate_report
\* on every host writes report.json, aggregate_cases merges the files.
\* ---------------------------------------------------------------------

\* results a host can hold for two scenarios: measured ones, one that
\* failed with zeroed metrics, and one of a kind that never writes
HostResultPool ==
    LET rd == NewResult("FIO random read 4k QD1 J1", "randread", "4k", 1, 1, 100)
        rw == NewResult("FIO random read/write(50% read) 4k QD1 J1", "randrw",
                        "4k", 1, 1, 50)
    IN  { [rd EXCEPT !.read_iops = 100, !.read_mbps = 10, !.read_latency_us = 50,
                     !.throughput_mbps = 10],
          [rd EXCEPT !.read_iops = 200, !.read_mbps = 20, !.read_latency_us = 30,
                     !.throughput_mbps = 20],
          [rd EXCEPT !.error_message = "fio: io error"],
          [rw EXCEPT !.read_iops = 50, !.read_mbps = 5, !.read_latency_us = 40,
                     !.write_iops = 50, !.write_mbps = 5, !.write_latency_us = 80,
                     !.throughput_mbps = 10],
          [rw EXCEPT !.error_message = "test timeout"] }

\* the "cases" list generate_report dumps into report.json
ReportCases(fio_results) ==
    [i \in 1..Len(fio_results) |->
       LET r == fio_results[i] IN
       [ name |-> r.test_name,
         read |-> [iops |-> Num(r.read_iops), bw_MBps |-> Num(r.read_mbps),
                   lat_us |-> Num(r.read_latency_us)],
         write |-> [iops |-> Num(r.write_iops), bw_MBps |-> Num(r.write_mbps),
                    lat_us |-> Num(r.write_latency_us)] ]]

\* generate_report on every host, then collect: one file per host
WriteReports ==
    /\ agg_out.state = "hosts"
    /\ agg_files' = [h \in 1..Len(agg_out.results) |->
                       [kind |-> "dict", cases |-> ReportCases(agg_out.results[h])]]
    /\ agg_out' = [state |-> "pending"]
    /\ UNCHANGED notAgg

\* every host holds the results of its run
InitPipeline ==
    /\ agg_files = <<>>
    /\ \E rs \in [1..Cardinality(Hosts) -> SeqsUpTo(HostResultPool, 2)] :
         agg_out = [state |-> "hosts", results |-> rs]
    /\ AllIdleBut({"agg"})

NextPipeline == WriteReports \/ Aggregate

SpecPipeline == InitPipeline /\ [][NextPipeline]_vars

\* the occurrences of a name whose host measured a latency for a direction
Measured(name, dir) ==
    {p \in Occurrences(name) : Float(DirAt(p, dir), "lat_us") > 0}

\* the names in the files, whatever they are
NamesInFiles ==
    UNION {{Get(agg_files[f].cases[j], "name", "") :
              j \in 1..Len(agg_files[f].cases)} : f \in DictFiles}

\* C28: in the pipeline from generate_report to aggregate_cases a host that
\* measured no latency for a direction of a case (a failed scenario with
\* zeroed metrics, or a direction the case never exercised) is not counted
\* in the divisor of the aggregate latency of that case and direction.
C28_UnmeasuredNotCounted ==
    AggReturned =>
      \A i \in 1..Len(agg_out.cases) :
        LET c == agg_out.cases[i] IN
        \A dir \in {"read", "write"} :
          LET n == Cardinality(Measured(c.name, dir)) IN
          IF n = 0 THEN c[dir].lat_us.n = 0
          ELSE FracEq(c[dir].lat_us, Frac(SumOfMetric(c.name, dir, "lat_us"), n))

\* the results of swept scenarios in the list of the run
SweptResults == SelectSeq(all_results, LAMBDA r : ~StartsWith(r.test_name, "CORE "))

----------------------------------------------------------------------------
(* SystemMonitor of vm_storage_performance_test.py: the sampling thread    *)
(* that start_monitoring creates, the flag that stop_monitoring clears,    *)
(* and a test method that brackets its command with the two calls and then *)
(* reads the averages.                                                     *)

MaxTests == 2
MaxSamples == 2

MonThreads == 1..MaxTests

\* d[k] = v on a dict modelled as a function
Update(d, k, v) == (k :> v) @@ d

\* the threads that have been created and have not left _monitor_loop
Alive == {t \in DOMAIN mon_thread_pc : mon_thread_pc[t] # "ended"}

\* start_monitoring: set the flag, clear the lists, create and start a new
\* thread; whatever thread was there before is neither looked at nor waited
\* for. The test method then starts its command.
start_monitoring ==
    /\ mon_caller = "idle"
    /\ mon_test < MaxTests
    /\ mon_test' = mon_test + 1
    /\ monitoring' = TRUE
    /\ cpu_usage' = <<>>
    /\ monitor_thread' = mon_test + 1
    /\ mon_thread_pc' = Update(mon_thread_pc, mon_test + 1, "while")
    /\ mon_caller' = "testing"
    /\ UNCHANGED mon_stats
    /\ UNCHANGED notMon

\* stop_monitoring up to its join: the command of the test has returned
\* (ok) or raised (~ok), and the flag is cleared
stop_monitoring ==
    /\ mon_caller = "testing"
    /\ \E ok \in BOOLEAN :
           mon_caller' = IF ok THEN "joining" ELSE "joining after error"
    /\ monitoring' = FALSE
    /\ UNCHANGED <<monitor_thread, cpu_usage, mon_thread_pc, mon_test, mon_stats>>
    /\ UNCHANGED notMon

\* self.monitor_thread.join(timeout=2) returns: the thread has ended, or
\* two seconds have gone by and it has not
thread_join ==
    /\ mon_caller \in {"joining", "joining after error"}
    /\ \/ mon_thread_pc[monitor_thread] = "ended"
       \/ mon_thread_pc[monitor_thread] # "ended"
    /\ mon_caller' = IF mon_caller = "joining" THEN "stopped" ELSE "idle"
    /\ UNCHANGED <<monitoring, monitor_thread, cpu_usage, mon_thread_pc,
                   mon_test, mon_stats>>
    /\ UNCHANGED notMon

\* get_average_stats: the averages are taken over the lists as they are
get_average_stats ==
    /\ mon_caller = "stopped"
    /\ mon_stats' = Update(mon_stats, mon_test, cpu_usage)
    /\ mon_caller' = "idle"
    /\ UNCHANGED <<monitoring, monitor_thread, cpu_usage, mon_thread_pc, mon_test>>
    /\ UNCHANGED notMon

\* _monitor_loop, `while self.monitoring`
LoopTest(t) ==
    /\ t \in DOMAIN mon_thread_pc
    /\ mon_thread_pc[t] = "while"
    /\ mon_thread_pc' =
           Update(mon_thread_pc, t, IF monitoring THEN "sample" ELSE "ended")
    /\ UNCHANGED <<monitoring, monitor_thread, cpu_usage, mon_test, mon_caller,
                   mon_stats>>
    /\ UNCHANGED notMon

\* _monitor_loop, the body up to the sleep: a sample is appended unless the
\* sampler returned None
LoopSample(t) ==
    /\ t \in DOMAIN mon_thread_pc
    /\ mon_thread_pc[t] = "sample"
    /\ Len(cpu_usage) < MaxSamples
    /\ \E sampled \in BOOLEAN :
           cpu_usage' =
               IF sampled
               THEN Append(cpu_usage,
                           [thread |-> t, test |-> mon_test, at |-> mon_caller])
               ELSE cpu_usage
    /\ mon_thread_pc' = Update(mon_thread_pc, t, "sleep")
    /\ UNCHANGED <<monitoring, monitor_thread, mon_test, mon_caller, mon_stats>>
    /\ UNCHANGED notMon

\* _monitor_loop, time.sleep(1) is over
LoopSleep(t) ==
    /\ t \in DOMAIN mon_thread_pc
    /\ mon_thread_pc[t] = "sleep"
    /\ mon_thread_pc' = Update(mon_thread_pc, t, "while")
    /\ UNCHANGED <<monitoring, monitor_thread, cpu_usage, mon_test, mon_caller,
                   mon_stats>>
    /\ UNCHANGED notMon

\* SystemMonitor.__init__, and a test object that has run no test yet
InitMonitor ==
    /\ monitoring = FALSE
    /\ monitor_thread = 0
    /\ cpu_usage = <<>>
    /\ mon_thread_pc = EmptyDict
    /\ mon_test = 0
    /\ mon_caller = "idle"
    /\ mon_stats = EmptyDict
    /\ AllIdleBut({"mon"})

NextMonitor ==
    \/ start_monitoring
    \/ stop_monitoring
    \/ thread_join
    \/ get_average_stats
    \/ \E t \in MonThreads : LoopTest(t)
    \/ \E t \in MonThreads : LoopSample(t)
    \/ \E t \in MonThreads : LoopSleep(t)

SpecMonitor == InitMonitor /\ [][NextMonitor]_vars

\* the samples a thread appended once stop_monitoring had returned
AfterStop(samples) ==
    {i \in 1..Len(samples) : samples[i].at \in {"stopped", "idle"}}

\* the samples appended by another thread than the one the test started
Foreign(samples, k) ==
    {i \in 1..Len(samples) : samples[i].thread # k}

\* C30: over any sequence of start_monitoring and stop_monitoring calls
\* around successive tests, at most one thread is in the sampling loop with
\* a sample to take, no sample is in the lists that was appended after
\* stop_monitoring returned and before the next start_monitoring, and the
\* samples averaged for a test were all taken by that test's thread while
\* the test was monitored.
C30_OnlyThisTestsSamples ==
    /\ Cardinality({t \in Alive : mon_thread_pc[t] = "sample"}) <= 1
    /\ AfterStop(cpu_usage) = {}
    /\ \A k \in DOMAIN mon_stats :
           AfterStop(mon_stats[k]) = {} /\ Foreign(mon_stats[k], k) = {}

====
